---- MODULE Spec2Model ----
(***************************************************************************)
(* The Intern doc viewer (src/src/doc_viewer.ts): the hash router, the     *)
(* doc set loader with its cache, and the completion handler that mounts   *)
(* the menu and the page.                                                  *)
(*                                                                         *)
(* One step of the model is one task of the browser's event loop: a        *)
(* hashchange event, a fetch completion, the window 'load' event, a        *)
(* scroll event, a timer.  The promise reactions a task enqueues run       *)
(* inside the same step, in the order the microtask queue gives them.      *)
(*                                                                         *)
(* location.hash is kept as the sequence of the decoded segments that      *)
(* parseHash obtains by splitting at '/': '' is <<"">>, '#Intern/4' is     *)
(* <<"Intern", "4">>.  The highlight classes that highlightActiveSection   *)
(* and highlightActivePage toggle are not part of the state; the two       *)
(* functions are modelled for the exceptions they raise.                   *)
(***************************************************************************)
EXTENDS Integers, Sequences, FiniteSets, TLC

VARIABLES
    hash,          \* location.hash, as its sequence of segments
    hashEvents,    \* hashchange events queued and not yet delivered (origin of each)
    skipPageLoad,  \* doc_viewer.ts:177
    ignoreScroll,  \* doc_viewer.ts:178
    readyState,    \* the `ready` promise: "unset", "pending", "fired"
    started,       \* polyfilled() has run
    fetches,       \* per doc set and URL: state of the fetch of the first load
    fetchedQ,      \* pages whose text arrived while `ready` was pending, in order
    pageCache,     \* docs.pageCache per doc set
    menu,          \* docs.menu per doc set
    apiPages,      \* docs.apiPages (and the keys of docs.apiCache) per doc set
    apiMenu,       \* docs.apiMenu per doc set
    loadState,     \* the `load` promise of the first load per doc set
    firstWaiter,   \* the processHash callback chained on the first load
    earlyWaiters,  \* callbacks of loadDocset calls that wait for `ready` only
    dom,           \* viewer/container attributes, mounted menu, mounted page
    menuTimer,     \* the scroll debounce timer is pending
    fetchCount,    \* history: number of fetch() calls per doc set and URL
    navs,          \* history: number of user navigations so far
    scrolls,       \* history: number of scroll events so far
    lastPass,      \* history: the last processHash pass
    lastCb,        \* history: the last run of processHash's completion callback
    settled,       \* history: the last loadDocset promise that resolved
    call           \* a part studied on its own: one call of a pure function
                   \* with its arguments and result, the state of the
                   \* debounce timers, or one slugifier

vars == <<hash, hashEvents, skipPageLoad, ignoreScroll, readyState, started,
          fetches, fetchedQ, pageCache, menu, apiPages, apiMenu, loadState,
          firstWaiter, earlyWaiters, dom, menuTimer, fetchCount, navs,
          scrolls, lastPass, lastCb, settled, call>>

----------------------------------------------------------------------------
(* Bounds *)

MaxNav == 2
MaxScroll == 1

----------------------------------------------------------------------------
(* JavaScript values *)

UNDEFINED == "<undefined>"

Falsy(x) == x \in {UNDEFINED, ""}

\* the string a DOM attribute or a template takes from a value
StringOf(x) == IF x = UNDEFINED THEN "undefined" ELSE x

\* encodeURIComponent on one part: undefined becomes the text 'undefined'
encodeURIComponent(x) == IF x = UNDEFINED THEN "undefined" ELSE x

----------------------------------------------------------------------------
(* The registry `docsets` and the content behind it *)

Projects == {"Intern"}

latest(p) == "4"

Versions(p) == {"2", "3", "4"}

DocSetIds == {<<"Intern", "2">>, <<"Intern", "3">>, <<"Intern", "4">>}

\* version 2 is registered with an empty page list
pages(d) ==
    CASE d = <<"Intern", "4">> -> <<"a.md", "b.md">>
      [] d = <<"Intern", "3">> -> <<"a.md">>
      [] OTHER -> <<>>

api(d) == IF d = <<"Intern", "3">> THEN "api.json" ELSE UNDEFINED

hasApi(d) == ~Falsy(api(d))

\* the module pages renderApiPages generates from the API data
ApiModules(d) == <<"m1">>

Range(s) == {s[i] : i \in 1..Len(s)}

\* s[0] in JavaScript: undefined for an empty array
First(s) == IF Len(s) > 0 THEN s[1] ELSE UNDEFINED

Urls(d) == Range(pages(d)) \cup (IF hasApi(d) THEN {api(d)} ELSE {})

\* the markdown behind a page: does it have an <h1>, does it hold a link
\* that the link_open rule rewrites with createHash
hasH1(d, name) == TRUE

hasLinks(d, name) == name = "b.md"

\* the ids of the h1..h3 headings of a rendered page
Headings(kind, name) ==
    IF kind = "docs" THEN (IF name = "a.md" THEN {"a", "s1"} ELSE {"b"})
    ELSE {"m1", "f"}

----------------------------------------------------------------------------
(* The hash codec and the registry lookups *)

Seg(h, i) == IF i <= Len(h) THEN h[i] ELSE UNDEFINED

\* location.hash.slice(1).split('/').map(decodeURIComponent), destructured
parseHash(h) ==
    [project |-> Seg(h, 1), version |-> Seg(h, 2), type |-> Seg(h, 3),
     page |-> Seg(h, 4), section |-> Seg(h, 5)]

\* getDocInfo dereferences docsets[project] and the version entry without
\* checking them: it raises a TypeError where they are undefined
getDocInfoThrows(h) ==
    LET data == parseHash(h)
        project == IF Falsy(data.project) THEN "Intern" ELSE data.project
    IN  \/ Falsy(data.version) /\ project \notin Projects
        \/ /\ Falsy(data.page)
           /\ \/ project \notin Projects
              \/ (IF Falsy(data.version) THEN latest(project) ELSE data.version)
                     \notin Versions(project)

getDocInfo(h, ap) ==
    LET \* `if (!page)`: the first page of the doc set's pages or API pages
        withPage(data, d, type) ==
            [project |-> d[1], version |-> d[2], type |-> type,
             page |-> IF ~Falsy(data.page) THEN data.page
                      ELSE IF type = "docs"
                           THEN (IF Len(pages(d)) > 0 THEN pages(d)[1] ELSE UNDEFINED)
                           ELSE IF ap[d].defined
                                THEN (IF Len(ap[d].names) > 0 THEN ap[d].names[1]
                                      ELSE UNDEFINED)
                                ELSE "",
             section |-> data.section]
        \* `if (!version)` and `if (!type)`
        withVersion(data, project) ==
            withPage(data,
                     <<project, IF Falsy(data.version) THEN latest(project)
                                ELSE data.version>>,
                     IF Falsy(data.type) THEN "docs" ELSE data.type)
        \* `if (!project)`
        withProject(data) ==
            withVersion(data, IF Falsy(data.project) THEN "Intern" ELSE data.project)
    IN  withProject(parseHash(h))

\* the doc set the fragment names once getDocInfo has put in its defaults
CurDocset(h) ==
    LET data == parseHash(h)
        project == IF Falsy(data.project) THEN "Intern" ELSE data.project
    IN  <<project, IF Falsy(data.version) /\ project \in Projects
                   THEN latest(project) ELSE data.version>>

HashValid(h) == CurDocset(h) \in DocSetIds

Given(info, f, default) == IF f \in DOMAIN info THEN info[f] ELSE default

\* createHash: `info` holds the properties the caller passed; a property
\* passed as undefined still overrides the default, as the object spread does
createHash(h, ap, info) ==
    LET page == Given(info, "page", UNDEFINED)
        section == Given(info, "section", UNDEFINED)
        join(parts) == [i \in 1..Len(parts) |-> encodeURIComponent(parts[i])]
        build(currentDocs) ==
            join(<<Given(info, "project", currentDocs.project),
                   Given(info, "version", currentDocs.version),
                   Given(info, "type", "docs")>>
                 \o (IF Falsy(page) THEN <<>>
                     ELSE <<page>> \o (IF Falsy(section) THEN <<>> ELSE <<section>>)))
    IN  build(getDocInfo(h, ap))

\* getDocset(setId): undefined for an unknown project; otherwise it writes
\* the latest version into setId when setId has none (doc_viewer.ts:1053)
getDocset(setId) ==
    IF setId.project \notin Projects
    THEN [defined |-> FALSE, project |-> setId.project, version |-> setId.version,
          hasDocs |-> FALSE]
    ELSE LET version == IF Falsy(setId.version) THEN latest(setId.project)
                        ELSE setId.version
         IN  [defined |-> TRUE, project |-> setId.project, version |-> version,
              hasDocs |-> version \in Versions(setId.project)]

\* setId as a getDocset that does not write to its argument leaves it
getDocsetArg_untouched(setId) == setId

\* setId as getDocset leaves it
getDocsetArg(setId) ==
    IF setId.project \in Projects /\ Falsy(setId.version)
    THEN [setId EXCEPT !.version = latest(setId.project)]
    ELSE setId

defaultDocs == [project |-> "Intern", version |-> latest("Intern")]

----------------------------------------------------------------------------
(* The state as one record, for the sequential code of the handlers *)

Cur ==
    [hash |-> hash, hashEvents |-> hashEvents, skipPageLoad |-> skipPageLoad,
     ignoreScroll |-> ignoreScroll, readyState |-> readyState,
     started |-> started, fetches |-> fetches, fetchedQ |-> fetchedQ,
     pageCache |-> pageCache, menu |-> menu, apiPages |-> apiPages,
     apiMenu |-> apiMenu, loadState |-> loadState, firstWaiter |-> firstWaiter,
     earlyWaiters |-> earlyWaiters, dom |-> dom, menuTimer |-> menuTimer,
     fetchCount |-> fetchCount, navs |-> navs, scrolls |-> scrolls,
     lastPass |-> lastPass, lastCb |-> lastCb, settled |-> settled,
     exc |-> FALSE,          \* an exception is propagating
     enteredRouter |-> FALSE]  \* processHash went past `if (ignoring) return`

Commit(w) ==
    /\ hash' = w.hash
    /\ hashEvents' = w.hashEvents
    /\ skipPageLoad' = w.skipPageLoad
    /\ ignoreScroll' = w.ignoreScroll
    /\ readyState' = w.readyState
    /\ started' = w.started
    /\ fetches' = w.fetches
    /\ fetchedQ' = w.fetchedQ
    /\ pageCache' = w.pageCache
    /\ menu' = w.menu
    /\ apiPages' = w.apiPages
    /\ apiMenu' = w.apiMenu
    /\ loadState' = w.loadState
    /\ firstWaiter' = w.firstWaiter
    /\ earlyWaiters' = w.earlyWaiters
    /\ dom' = w.dom
    /\ menuTimer' = w.menuTimer
    /\ fetchCount' = w.fetchCount
    /\ navs' = w.navs
    /\ scrolls' = w.scrolls
    /\ lastPass' = w.lastPass
    /\ lastCb' = w.lastCb
    /\ settled' = w.settled
    /\ call' = call

\* an exception is raised; `site` names the function that raises it
Throw(w, site) == [w EXCEPT !.exc = TRUE]

\* a promise reaction that threw rejects its promise; the next reaction
\* starts without a propagating exception
Caught(w) == [w EXCEPT !.exc = FALSE]

NoMenu == [shown |-> FALSE, d |-> <<"", "">>, kind |-> ""]

NoPage == [shown |-> FALSE, d |-> <<"", "">>, kind |-> "", name |-> ""]

NoWaiter ==
    [waiting |-> FALSE, hash |-> parseHash(<<>>), d |-> <<"", "">>,
     needsReady |-> FALSE]

UndefinedMenu == [defined |-> FALSE, items |-> <<>>, project |-> "", version |-> ""]

UndefinedPages == [defined |-> FALSE, names |-> <<>>]

UndefinedCache == [defined |-> FALSE, names |-> {}]

\* setHash in a browser that fires no hashchange event for a fragment set
\* by script
setHash_silent(w, newHash, ignoreUpdate, origin) ==
    [w EXCEPT !.skipPageLoad = IF ignoreUpdate /\ w.hash # newHash THEN TRUE ELSE @,
              !.hash = newHash]

\* setHash, with the hashchange event the assignment to location.hash
\* queues when it changes the fragment
setHash(w, newHash, ignoreUpdate, origin) ==
    [w EXCEPT !.skipPageLoad = IF ignoreUpdate /\ w.hash # newHash THEN TRUE ELSE @,
              !.hash = newHash,
              !.hashEvents = IF w.hash # newHash THEN Append(@, origin) ELSE @]

----------------------------------------------------------------------------
(* Showing a doc set: showMenu, showPage and processHash's callback *)

\* highlightActiveSection: with a menu mounted and no link for the current
\* fragment it calls getDocInfo.  A menu link has a version and a page, so
\* no link equals a fragment on which getDocInfo raises.
highlightActiveSection(w) ==
    IF w.dom.menu.shown /\ getDocInfoThrows(w.hash)
    THEN Throw(w, "highlightActiveSection")
    ELSE w

\* getDocset() without argument: the doc set of the current fragment
CurrentDocsetThrows(w) ==
    getDocInfoThrows(w.hash) \/ ~getDocset(getDocInfo(w.hash, w.apiPages)).defined

showMenu(w, type0) ==
    LET type == IF Falsy(type0) THEN "docs" ELSE type0
        \* the mounted .menu-list is removed before docs.menu is read
        w1 == [w EXCEPT !.dom.menu = NoMenu]
        mount(docset) ==
            LET d == <<docset.project, docset.version>>
                docMenu == IF type = "docs" THEN w.menu[d] ELSE w.apiMenu[d]
            IN  IF ~docset.hasDocs THEN Throw(w1, "showMenu")
                ELSE IF ~docMenu.defined THEN Throw(w1, "showMenu")
                ELSE [w1 EXCEPT !.dom.menu =
                         [shown |-> TRUE, d |-> d,
                          kind |-> IF type = "docs" THEN "docs" ELSE "api"]]
    IN  IF CurrentDocsetThrows(w) THEN Throw(w, "showMenu")
        ELSE mount(getDocset(getDocInfo(w.hash, w.apiPages)))

\* getPage(docs, type, name): the name looked up and whether the lookup raises
getPageName(w, d, type, name) ==
    IF ~Falsy(name) THEN name
    ELSE LET pageNames == IF type = "docs" THEN pages(d) ELSE w.apiPages[d].names
         IN  IF Len(pageNames) > 0 THEN pageNames[1] ELSE UNDEFINED

getPageThrows(w, d, type, name) ==
    \/ Falsy(name) /\ type # "docs" /\ ~w.apiPages[d].defined
    \/ type = "docs" /\ ~w.pageCache[d].defined
    \/ type # "docs" /\ ~w.apiPages[d].defined

getPageFound(w, d, type, name) ==
    LET n == getPageName(w, d, type, name)
    IN  IF type = "docs" THEN n \in w.pageCache[d].names
        ELSE n \in Range(w.apiPages[d].names)

\* a showPage that removes the mounted page and mounts nothing
showPage_unmounted(w, type, name, section) == [w EXCEPT !.dom.page = NoPage]

showPage(w, type, name, section) ==
    LET \* the mounted page is removed before page.element is read
        w1 == [w EXCEPT !.dom.page = NoPage]
        mount(docset) ==
            LET d == <<docset.project, docset.version>>
                mounted == [shown |-> TRUE, d |-> d,
                            kind |-> IF type = "docs" THEN "docs" ELSE "api",
                            name |-> getPageName(w, d, type, name)]
            IN  IF ~docset.hasDocs \/ getPageThrows(w, d, type, name)
                THEN Throw(w, "showPage")
                ELSE IF ~getPageFound(w, d, type, name) THEN Throw(w1, "showPage")
                ELSE IF ~w.dom.menu.shown
                THEN Throw([w1 EXCEPT !.dom.page = mounted], "highlightActivePage")
                ELSE [w1 EXCEPT !.dom.page = mounted, !.ignoreScroll = TRUE]
    IN  IF CurrentDocsetThrows(w) THEN Throw(w, "showPage")
        ELSE mount(getDocset(getDocInfo(w.hash, w.apiPages)))

\* a viewer whose `viewer` element is assigned when the script starts
viewerDefined_always(w) == TRUE

\* `viewer` is assigned by the first reaction on `ready`, once the window
\* 'load' event has fired (doc_viewer.ts:212-213)
viewerDefined(w) == w.readyState = "fired"

\* the callback processHash chains on loadDocset's promise
\* (doc_viewer.ts:808-817); hp is the parsed fragment of that pass and d the
\* doc set getDocset returned in that pass
callback(w, hp, d) ==
    LET done(w3, menuRan, pageRan) ==
            Caught([w3 EXCEPT !.lastCb =
                       [d |-> d, hash |-> hp,
                        current |-> CurDocset(w.hash),
                        outcome |-> IF w3.exc THEN "threw" ELSE "shown",
                        ready |-> w.readyState,
                        menuRan |-> menuRan, pageRan |-> pageRan]])
        page(w2, menuRan) ==
            done(IF w2.exc THEN w2 ELSE showPage(w2, hp.type, hp.page, hp.section),
                 menuRan, ~w2.exc)
        menuThenPage(w1) ==
            page(IF w1.exc THEN w1 ELSE showMenu(w1, hp.type), ~w1.exc)
    IN  menuThenPage(IF ~viewerDefined(w)
                     THEN Throw(w, "callback")       \* `viewer` is still undefined
                     ELSE [w EXCEPT !.dom.docType = StringOf(hp.type),
                                    !.dom.docProject = d[1],
                                    !.dom.docVersion = d[2]])

\* the reaction loadDocset chains on Promise.all([ready, load]):
\* updateNavBarLinks and updateDocsetSelector read the current fragment and
\* raise when it names no registered doc set; then the promise resolves and
\* processHash's callback runs
resolveLoadDocset(w, hp, d) ==
    IF ~HashValid(w.hash) THEN Caught(Throw(w, "updateDocsetSelector"))
    ELSE callback([w EXCEPT !.settled =
                      [any |-> TRUE, d |-> d,
                       inFlight |-> w.loadState[d] = "pending",
                       complete |-> /\ w.pageCache[d].defined
                                    /\ Range(pages(d)) \subseteq w.pageCache[d].names
                                    /\ w.menu[d].defined]],
                  hp, d)

----------------------------------------------------------------------------
(* Loading a doc set *)

\* a Promise.all that is fulfilled with the first page that is cached
AllDone_first(w, d) == \E u \in Urls(d) : w.fetches[d][u] = "done"

AllDone(w, d) == \A u \in Urls(d) : w.fetches[d][u] = "done"

\* NeedsLoad in a loader where every call loads the doc set again
NeedsLoad_always(w, d) == TRUE

\* mutant of NeedsLoad: the doc set counts as loaded only once its menu exists
NeedsLoad_late(w, d) == ~w.menu[d].defined

\* `if (!cache)`: the doc set has not been loaded yet (doc_viewer.ts:350)
NeedsLoad(w, d) == ~w.pageCache[d].defined

\* mutant of LoadsFulfilled: a failed fetch counts as settled and is skipped
LoadsFulfilled_settled(w, d) ==
    /\ w.loadState[d] \in {"pending", "rejected"}
    /\ ~w.menu[d].defined
    /\ \A u \in Urls(d) : w.fetches[d][u] \in {"done", "failed"}

\* Promise.all(loads) is fulfilled once every fetch has delivered and every
\* page is in the cache; it is rejected with the first fetch that fails
LoadsFulfilled(w, d) == w.loadState[d] = "pending" /\ AllDone(w, d)

\* the load promise is rejected: the reactions chained on it never run
rejectLoad(w, d) ==
    IF w.loadState[d] = "pending"
    THEN [w EXCEPT !.loadState[d] = "rejected", !.firstWaiter[d] = NoWaiter]
    ELSE w

\* createMenu(docset, type): docs.menu / docs.apiMenu is assigned before the
\* items are created; createLinkItem calls createHash, which reads the
\* current fragment
createMenu(w, d, type) ==
    LET pageNames == IF type = "api" THEN w.apiPages[d].names ELSE pages(d)
        assign(built) == IF type = "api" THEN [w EXCEPT !.apiMenu[d] = built]
                         ELSE [w EXCEPT !.menu[d] = built]
        \* the links take project and version from the current fragment
        fill(docs) == assign([defined |-> TRUE, items |-> pageNames,
                              project |-> docs.project, version |-> docs.version])
    IN  IF Len(pageNames) = 0
        THEN assign([defined |-> TRUE, items |-> <<>>, project |-> "", version |-> ""])
        ELSE IF getDocInfoThrows(w.hash)
        THEN Throw(assign([defined |-> TRUE, items |-> <<>>,
                           project |-> "", version |-> ""]),
                   "createMenu")
        ELSE fill(getDocInfo(w.hash, w.apiPages))

\* renderApiPages(setId, data): assigns docs.apiPages and docs.apiCache and
\* fills them with one page per module
renderApiPages(w, d) ==
    [w EXCEPT !.apiPages[d] = [defined |-> TRUE, names |-> ApiModules(d)]]

\* the reaction on Promise.all(loads) (doc_viewer.ts:394-412)
buildLoad(w, d) ==
    LET settle(w3) == IF w3.exc THEN rejectLoad(Caught(w3), d)
                      ELSE [w3 EXCEPT !.loadState[d] = "resolved"]
        apiMenuThen(w2) ==
            settle(IF ~w2.exc /\ hasApi(d) THEN createMenu(w2, d, "api") ELSE w2)
    IN  apiMenuThen(createMenu(IF hasApi(d) THEN renderApiPages(w, d) ELSE w,
                               d, "docs"))

\* the reaction on Promise.all([ready, load]) of the call that started the load
runFirst(w, d) ==
    LET waiter == w.firstWaiter[d]
    IN  IF w.loadState[d] = "resolved" /\ waiter.waiting
        THEN IF waiter.needsReady /\ w.readyState = "pending"
             THEN [w EXCEPT !.firstWaiter[d] = NoWaiter,
                            !.earlyWaiters = Append(@, waiter)]
             ELSE resolveLoadDocset([w EXCEPT !.firstWaiter[d] = NoWaiter],
                                    waiter.hash, d)
        ELSE w

finishLoad(w, d) == IF LoadsFulfilled(w, d) THEN runFirst(buildLoad(w, d), d) ELSE w

\* a cache that keeps only the page that arrives first
cachePage_firstOnly(w, d, name) ==
    [w EXCEPT !.pageCache[d].names = IF @ = {} THEN {name} ELSE @,
              !.fetches[d][name] = "done"]

\* the reaction on ready inside a page's fetch chain (doc_viewer.ts:372-389)
cachePage(w, d, name) ==
    IF (hasLinks(d, name) /\ getDocInfoThrows(w.hash)) \/ ~hasH1(d, name)
    THEN rejectLoad(Caught(Throw([w EXCEPT !.fetches[d][name] = "threw"], "render")), d)
    ELSE [w EXCEPT !.pageCache[d].names = @ \cup {name},
                   !.fetches[d][name] = "done"]

\* the `!cache` branch of loadDocset: the cache slot is created and every
\* fetch is issued
startLoad(w, hp, d) ==
    LET w1 == [w EXCEPT !.pageCache[d] = [defined |-> TRUE, names |-> {}],
                        !.fetches[d] = [u \in Urls(d) |-> "pending"],
                        !.fetchCount[d] = [u \in Urls(d) |-> @[u] + 1],
                        !.loadState[d] = "pending",
                        !.firstWaiter[d] =
                            [waiting |-> TRUE, hash |-> hp, d |-> d,
                             needsReady |-> w.readyState # "unset"]]
    IN  finishLoad(w1, d)

loadDocset(w, hp) ==
    LET docset == getDocset(hp)
        d == <<docset.project, docset.version>>
    IN  IF ~docset.defined THEN Throw(w, "loadDocset")
        ELSE IF w.dom.docProject = docset.project /\ w.dom.docVersion = docset.version
        THEN \* the doc set is already visible: Promise.resolve(docset)
             callback([w EXCEPT !.settled =
                          [any |-> TRUE, d |-> d,
                           inFlight |-> w.loadState[d] = "pending",
                           complete |-> /\ w.pageCache[d].defined
                                        /\ Range(pages(d)) \subseteq w.pageCache[d].names
                                        /\ w.menu[d].defined]],
                      hp, d)
        ELSE IF ~docset.hasDocs THEN Throw(w, "loadDocset")
        ELSE IF NeedsLoad(w, d) THEN startLoad(w, hp, d)
        ELSE \* already loaded: load = Promise.resolve()
             IF w.readyState = "pending"
             THEN [w EXCEPT !.earlyWaiters =
                       Append(@, [waiting |-> TRUE, hash |-> hp, d |-> d,
                                  needsReady |-> TRUE])]
             ELSE resolveLoadDocset(w, hp, d)

----------------------------------------------------------------------------
(* The router *)

Pass(w, h0, origin, outcome) ==
    Caught([w EXCEPT !.lastPass =
               [origin |-> origin, outcome |-> outcome,
                full |-> w.enteredRouter,
                first |-> w.lastPass.outcome = "none",   \* no pass ran before
                \* the pass called loadDocset on a doc set whose first load
                \* had completed (no fetch completes inside a pass)
                cached |-> /\ w.enteredRouter
                           /\ getDocset(parseHash(h0)).hasDocs
                           /\ w.loadState[<<getDocset(parseHash(h0)).project,
                                            getDocset(parseHash(h0)).version>>]
                                  = "resolved",
                project |-> parseHash(h0).project,
                version |-> parseHash(h0).version]])

processHash(w, origin) ==
    LET ignoring == w.skipPageLoad
        loaded(w2) == Pass(w2, w.hash, origin, IF w2.exc THEN "threw" ELSE "loaded")
        \* the pass once `if (ignoring) return` is behind it
        route(w1r, docset, hp) ==
            IF Falsy(hp.version)
            THEN IF ~docset.defined \/ getDocInfoThrows(w1r.hash)
                 THEN Pass(Throw(w1r, "processHash"), w.hash, origin, "threw")
                 ELSE Pass(setHash(w1r,
                                   createHash(w1r.hash, w1r.apiPages,
                                              [project |-> docset.project,
                                               version |-> docset.version,
                                               type |-> hp.type]
                                              @@ (IF Falsy(hp.page) THEN <<>>
                                                  ELSE [page |-> hp.page])
                                              @@ (IF Falsy(hp.section) THEN <<>>
                                                  ELSE [section |-> hp.section])),
                                   FALSE, "router"),
                           w.hash, origin, "rewrote")
            ELSE loaded(loadDocset(w1r, hp))
        highlighted(w1) ==
            IF w1.exc THEN Pass(w1, w.hash, origin, "threw")
            ELSE IF ignoring THEN Pass(w1, w.hash, origin, "skipped")
            ELSE route([w1 EXCEPT !.enteredRouter = TRUE],
                       getDocset(parseHash(w.hash)),
                       getDocsetArg(parseHash(w.hash)))
    IN  highlighted(highlightActiveSection([w EXCEPT !.skipPageLoad = FALSE]))

----------------------------------------------------------------------------
(* Scroll tracking *)

\* updateHashFromContent: `above` is the heading the scroll position selects
\* among the h1..h3 of the mounted page; without a mounted page it is
\* undefined and `above.id` raises
updateHashFromContent(w, above) ==
    IF getDocInfoThrows(w.hash) \/ ~w.dom.page.shown
    THEN Caught(Throw(w, "updateHashFromContent"))
    ELSE LET docs == getDocInfo(w.hash, w.apiPages)
         IN  setHash(w,
                     createHash(w.hash, w.apiPages,
                                [project |-> docs.project, version |-> docs.version,
                                 type |-> w.dom.docType, page |-> docs.page,
                                 section |-> above]),
                     TRUE, "scroll")

----------------------------------------------------------------------------
(* Initial state and the tasks of the event loop *)

InitHashes == {<<"">>, <<"Intern", "4", "docs", "a.md">>}

\* the fragments a user navigation (a link, an edited URL) can put in place
NavHashes ==
    {<<"Intern", "4", "docs", "a.md">>, <<"Intern", "4", "docs", "b.md">>,
     <<"Intern", "3", "docs", "a.md">>, <<"Intern", "3", "api", "m1">>,
     <<"Intern", "4", "docs", "not-a-real-page">>,
     <<"Intern", "9", "docs", "a.md">>, <<"Nope">>}

\* no pure function is being called
NoCall == [fn |-> "none"]

\* the viewer's state when the script starts on one of the fragments
ViewerInit(fragments) ==
    /\ hash \in fragments
    /\ hashEvents = <<>>
    /\ skipPageLoad = FALSE
    /\ ignoreScroll = FALSE
    /\ readyState = "unset"
    /\ started = FALSE
    /\ fetches = [d \in DocSetIds |-> [u \in Urls(d) |-> "none"]]
    /\ fetchedQ = <<>>
    /\ pageCache = [d \in DocSetIds |-> UndefinedCache]
    /\ menu = [d \in DocSetIds |-> UndefinedMenu]
    /\ apiPages = [d \in DocSetIds |-> UndefinedPages]
    /\ apiMenu = [d \in DocSetIds |-> UndefinedMenu]
    /\ loadState = [d \in DocSetIds |-> "none"]
    /\ firstWaiter = [d \in DocSetIds |-> NoWaiter]
    /\ earlyWaiters = <<>>
    /\ dom = [docType |-> "null", docProject |-> UNDEFINED, docVersion |-> UNDEFINED,
              menu |-> NoMenu, page |-> NoPage]
    /\ menuTimer = FALSE
    /\ fetchCount = [d \in DocSetIds |-> [u \in Urls(d) |-> 0]]
    /\ navs = 0
    /\ scrolls = 0
    /\ lastPass = [origin |-> "", outcome |-> "none", full |-> FALSE, first |-> FALSE,
                   cached |-> FALSE,
                   project |-> "", version |-> ""]
    /\ lastCb = [d |-> <<"", "">>, hash |-> parseHash(<<>>), current |-> <<"", "">>,
                 outcome |-> "none", ready |-> "unset", menuRan |-> FALSE,
                 pageRan |-> FALSE]
    /\ settled = [any |-> FALSE, d |-> <<"", "">>, inFlight |-> FALSE,
                  complete |-> FALSE]

Init == ViewerInit(InitHashes) /\ call = NoCall

\* polyfilled(): the hashchange listener, the first fragment, the `ready`
\* promise.  The build targets ES5, so `ready` is a `var` that is still
\* undefined while the direct processHash call runs; an exception in that
\* call ends polyfilled before `ready` is created.
polyfilled ==
    /\ ~started
    /\ LET w0 == [Cur EXCEPT !.started = TRUE]
       IN  IF Falsy(w0.hash[1]) /\ Len(w0.hash) = 1
           THEN LET docset == getDocset(defaultDocs)
                    d == <<docset.project, docset.version>>
                    w1 == setHash(w0,
                                  createHash(w0.hash, w0.apiPages,
                                             [project |-> docset.project,
                                              version |-> docset.version,
                                              page |-> First(pages(d))]),
                                  FALSE, "start")
                IN  Commit([w1 EXCEPT !.readyState = "pending"])
           ELSE LET createReady(w1) ==
                        [w1 EXCEPT !.readyState =
                            IF w1.lastPass.outcome = "threw" THEN "unset"
                            ELSE "pending"]
                IN  Commit(createReady(processHash(w0, "direct")))

\* a hashchange event is delivered
hashchange ==
    /\ started
    /\ hashEvents # <<>>
    /\ Commit(processHash([Cur EXCEPT !.hashEvents = Tail(@)], Head(hashEvents)))

\* the user follows a link or edits the fragment
navigate(h) ==
    /\ started
    /\ navs < MaxNav
    /\ h # hash
    /\ Commit([Cur EXCEPT !.hash = h, !.hashEvents = Append(@, "user"),
                          !.navs = @ + 1])

\* a fetch delivers its response
fetchOk(d, u) ==
    /\ fetches[d][u] = "pending"
    /\ IF u = api(d)
       THEN Commit(finishLoad([Cur EXCEPT !.fetches[d][u] = "done"], d))
       ELSE CASE readyState = "unset" ->
                   \* `ready.then` on undefined
                   Commit(rejectLoad(Caught(Throw([Cur EXCEPT !.fetches[d][u] = "threw"],
                                                  "ready.then")), d))
              [] readyState = "pending" ->
                   Commit([Cur EXCEPT !.fetches[d][u] = "fetched",
                                      !.fetchedQ = Append(@, <<d, u>>)])
              [] readyState = "fired" ->
                   Commit(finishLoad(cachePage(Cur, d, u), d))

\* a fetch fails (network error, unparseable API data)
fetchFail(d, u) ==
    /\ fetches[d][u] = "pending"
    /\ Commit(rejectLoad([Cur EXCEPT !.fetches[d][u] = "failed"], d))

RECURSIVE cachePages(_, _)
cachePages(w, q) ==
    IF q = <<>> THEN w
    ELSE cachePages(cachePage(w, Head(q)[1], Head(q)[2]), Tail(q))

RECURSIVE runEarly(_, _)
runEarly(w, q) ==
    IF q = <<>> THEN w
    ELSE runEarly(resolveLoadDocset(w, Head(q).hash, Head(q).d), Tail(q))

\* the doc sets of the queued pages, in the order of their last page
RECURSIVE completionOrder(_)
completionOrder(q) ==
    IF q = <<>> THEN <<>>
    ELSE IF \E i \in 1..Len(Tail(q)) : Tail(q)[i][1] = Head(q)[1]
         THEN completionOrder(Tail(q))
         ELSE <<Head(q)[1]>> \o completionOrder(Tail(q))

RECURSIVE buildAll(_, _)
buildAll(w, ds) ==
    IF ds = <<>> THEN w
    ELSE buildAll(IF LoadsFulfilled(w, Head(ds)) THEN buildLoad(w, Head(ds)) ELSE w,
                  Tail(ds))

RECURSIVE runAll(_, _)
runAll(w, ds) ==
    IF ds = <<>> THEN w ELSE runAll(runFirst(w, Head(ds)), Tail(ds))

\* the window 'load' event resolves `ready`.  Its reactions run in the order
\* of the microtask queue: the queued pages are rendered and cached; the
\* callbacks of the calls that found a cache slot run two jobs later; the
\* reactions on Promise.all(loads) build the menus one job after that; the
\* callbacks of the calls that started the loads come last.
windowLoad ==
    /\ readyState = "pending"
    /\ LET w0 == [Cur EXCEPT !.readyState = "fired", !.fetchedQ = <<>>,
                             !.earlyWaiters = <<>>]
           w1 == cachePages(w0, fetchedQ)
           w2 == runEarly(w1, earlyWaiters)
           w3 == buildAll(w2, completionOrder(fetchedQ))
       IN  Commit(runAll(w3, completionOrder(fetchedQ)))

\* a scroll event on .docs-content (the listener exists once ready fired)
scroll ==
    /\ readyState = "fired"
    /\ scrolls < MaxScroll
    /\ Commit([Cur EXCEPT !.scrolls = @ + 1,
                          !.ignoreScroll = FALSE,
                          !.menuTimer = IF ignoreScroll THEN @ ELSE TRUE])

\* the scroll debounce timer fires
menuTimeout ==
    /\ menuTimer
    /\ \E above \in (IF dom.page.shown THEN Headings(dom.page.kind, dom.page.name)
                     ELSE {UNDEFINED}) :
           Commit(updateHashFromContent([Cur EXCEPT !.menuTimer = FALSE], above))

\* a change event of the project or the version <select>; the options exist
\* once updateDocsetSelector has run
change(property, value) ==
    /\ readyState = "fired"
    /\ settled.any
    /\ navs < MaxNav
    /\ property = "project" => value \in Projects
    /\ property = "version" => value \in Versions(CurDocset(hash)[1])
    /\ LET w0 == [Cur EXCEPT !.navs = @ + 1]
       IN  IF getDocInfoThrows(hash) \/ CurDocset(hash)[1] \notin Projects
           THEN Commit(Caught(Throw(w0, "change")))
           ELSE LET docs == getDocInfo(hash, apiPages)
                    project == IF property = "project" THEN value ELSE docs.project
                    version == IF property = "project" THEN latest(value) ELSE value
                IN  Commit(setHash(w0,
                                   createHash(hash, apiPages,
                                              [project |-> project, version |-> version,
                                               page |-> First(pages(<<project, version>>))]),
                                   FALSE, "select"))

Next ==
    \/ polyfilled
    \/ hashchange
    \/ \E h \in NavHashes : navigate(h)
    \/ \E d \in DocSetIds : \E u \in Urls(d) : fetchOk(d, u)
    \/ \E d \in DocSetIds : \E u \in Urls(d) : fetchFail(d, u)
    \/ windowLoad
    \/ scroll
    \/ menuTimeout
    \/ \E value \in {"Intern", "3", "4"} : \E property \in {"project", "version"} :
           change(property, value)

Spec == Init /\ [][Next]_vars

\* Startup without user input: the script starts on any fragment, then only
\* the hashchange events, the fetch completions and the window 'load' event
\* happen
StartHashes ==
    InitHashes \cup NavHashes \cup {<<"Intern">>, <<"Intern", "2", "docs">>}

StartupInit == ViewerInit(StartHashes) /\ call = NoCall

StartupNext ==
    \/ polyfilled
    \/ hashchange
    \/ \E d \in DocSetIds : \E u \in Urls(d) : fetchOk(d, u)
    \/ \E d \in DocSetIds : \E u \in Urls(d) : fetchFail(d, u)
    \/ windowLoad

SpecStartup == StartupInit /\ [][StartupNext]_vars

\* The step each event causes, told by what that event alone changes: the
\* script's first task sets `started`, a delivered hashchange event leaves
\* the queue, the 'load' event resolves `ready`, a completed request leaves
\* the state "pending"
polyfilledRan == ~started /\ started' = TRUE

hashchangeDelivered == hashEvents # <<>> /\ hashEvents' = Tail(hashEvents)

loadFired == readyState = "pending" /\ readyState' = "fired"

fetchCompleted(d, u) ==
    /\ fetches[d][u] = "pending"
    /\ \E r \in {"done", "fetched", "failed", "threw"} :
           fetches' = [fetches EXCEPT ![d][u] = r]

\* The browser delivers every event it has queued
StartupFairness ==
    /\ WF_started(polyfilledRan)
    /\ WF_hashEvents(hashchangeDelivered)
    /\ WF_readyState(loadFired)
    /\ \A d \in DocSetIds : \A u \in Urls(d) : WF_fetches(fetchCompleted(d, u))

SpecStartupFair == SpecStartup /\ StartupFairness

TypeOK ==
    /\ readyState \in {"unset", "pending", "fired"}
    /\ \A d \in DocSetIds : loadState[d] \in {"none", "pending", "resolved", "rejected"}

----------------------------------------------------------------------------
(* The hash codec on characters: createHash, the fragment, parseHash.  A    *)
(* string is the sequence of its characters; a value that may be undefined  *)
(* is [defined, chars].                                                     *)

MaxSegLen == 2    \* characters of the page segment of an identity
MaxRawLen == 6    \* characters of a fragment handed to parseHash

viewerVars == <<hash, hashEvents, skipPageLoad, ignoreScroll, readyState, started,
                fetches, fetchedQ, pageCache, menu, apiPages, apiMenu, loadState,
                firstWaiter, earlyWaiters, dom, menuTimer, fetchCount, navs,
                scrolls, lastPass, lastCb, settled>>

Absent == [defined |-> FALSE, chars |-> <<>>]

Str(chars) == [defined |-> TRUE, chars |-> chars]

Truthy(v) == v.defined /\ v.chars # <<>>

\* String(v), as encodeURIComponent applies it to its argument
CharsOf(v) ==
    IF v.defined THEN v.chars ELSE <<"u", "n", "d", "e", "f", "i", "n", "e", "d">>

\* the strings of 1..n characters over an alphabet
NonEmptyStrings(alphabet, n) == UNION {[1..k -> alphabet] : k \in 1..n}

Strings(alphabet, n) == UNION {[1..k -> alphabet] : k \in 0..n}

HexDigits == {"0", "1", "2", "3", "4", "5", "6", "7", "8", "9",
              "A", "B", "C", "D", "E", "F", "a", "b", "c", "d", "e", "f"}

\* %80..%FF is a byte of a multi-byte UTF-8 sequence
HighHexDigits == {"8", "9", "A", "B", "C", "D", "E", "F", "a", "b", "c", "d", "e", "f"}

\* the characters encodeURIComponent escapes; letters and digits are kept
EscapedChars == {" ", "\"", "#", "%", "/", "[", "]"}

HexCode(c) ==
    CASE c = " " -> <<"2", "0">>
      [] c = "\"" -> <<"2", "2">>
      [] c = "#" -> <<"2", "3">>
      [] c = "%" -> <<"2", "5">>
      [] c = "/" -> <<"2", "F">>
      [] c = "[" -> <<"5", "B">>
      [] c = "]" -> <<"5", "D">>

\* the character with the code hi lo (below 0x80)
CharOfCode(hi, lo) ==
    CASE <<hi, lo>> = <<"2", "0">> -> " "
      [] <<hi, lo>> = <<"2", "2">> -> "\""
      [] <<hi, lo>> = <<"2", "3">> -> "#"
      [] <<hi, lo>> = <<"2", "5">> -> "%"
      [] <<hi, lo>> \in {<<"2", "F">>, <<"2", "f">>} -> "/"
      [] <<hi, lo>> \in {<<"5", "B">>, <<"5", "b">>} -> "["
      [] <<hi, lo>> \in {<<"5", "D">>, <<"5", "d">>} -> "]"
      [] OTHER -> "\\x" \o hi \o lo

RECURSIVE encodeURIComponentChars(_)
encodeURIComponentChars(str) ==
    IF str = <<>> THEN <<>>
    ELSE (IF Head(str) \in EscapedChars THEN <<"%">> \o HexCode(Head(str))
          ELSE <<Head(str)>>)
         \o encodeURIComponentChars(Tail(str))

\* decodeURIComponent raises a URIError on a '%' that two hex digits do not
\* follow, and on an escaped byte that is not part of a valid UTF-8
\* sequence (a lone byte of 0x80 or more)
RECURSIVE decodeURIComponent(_)
decodeURIComponent(str) ==
    LET prepend(c, rest) == [rest EXCEPT !.chars = <<c>> \o @]
    IN  IF str = <<>> THEN [threw |-> FALSE, chars |-> <<>>]
        ELSE IF Head(str) # "%"
        THEN prepend(Head(str), decodeURIComponent(Tail(str)))
        ELSE IF \/ Len(str) < 3
                \/ str[2] \notin HexDigits
                \/ str[3] \notin HexDigits
                \/ str[2] \in HighHexDigits
        THEN [threw |-> TRUE, chars |-> <<>>]
        ELSE prepend(CharOfCode(str[2], str[3]),
                     decodeURIComponent(SubSeq(str, 4, Len(str))))

\* str.split(sep): at least one part, also for the empty string
RECURSIVE split(_, _)
split(str, sep) ==
    IF \A i \in 1..Len(str) : str[i] # sep THEN <<str>>
    ELSE LET i == CHOOSE k \in 1..Len(str) :
                      str[k] = sep /\ \A j \in 1..(k - 1) : str[j] # sep
         IN  <<SubSeq(str, 1, i - 1)>> \o split(SubSeq(str, i + 1, Len(str)), sep)

\* parts.join(sep)
RECURSIVE join(_, _)
join(parts, sep) ==
    IF parts = <<>> THEN <<>>
    ELSE IF Len(parts) = 1 THEN parts[1]
    ELSE parts[1] \o <<sep>> \o join(Tail(parts), sep)

\* location.hash: '' for an empty fragment, else '#' and the fragment
locationHash(fragment) == IF fragment = <<>> THEN <<>> ELSE <<"#">> \o fragment

\* the fragment after `location.hash = value`: the leading '#' is dropped.
\* encodeURIComponent leaves no character that the URL serializer rewrites.
fragmentOf(value) ==
    IF value # <<>> /\ Head(value) = "#" THEN Tail(value) ELSE value

\* createHash(info) on characters.  info carries all five keys, so the
\* defaults taken from getDocInfo() are overridden; getDocInfo() is called
\* all the same and raises on a current fragment `h` it cannot resolve.
createHashChars(h, info) ==
    LET parts == <<info.project, info.version, info.type>>
                 \o (IF Truthy(info.page)
                     THEN <<info.page>>
                          \o (IF Truthy(info.section) THEN <<info.section>> ELSE <<>>)
                     ELSE <<>>)
    IN  IF getDocInfoThrows(h) THEN [threw |-> TRUE, chars |-> <<>>]
        ELSE [threw |-> FALSE,
              chars |-> <<"#">> \o join([i \in 1..Len(parts) |->
                                           encodeURIComponentChars(CharsOf(parts[i]))],
                                       "/")]

\* parseHash() on characters: every part is decoded, the first five are kept
parseHashChars(fragment) ==
    LET field(decoded, i) == IF i <= Len(decoded) THEN Str(decoded[i].chars) ELSE Absent
        destructure(decoded) ==
            IF \E i \in 1..Len(decoded) : decoded[i].threw
            THEN [threw |-> TRUE, project |-> Absent, version |-> Absent,
                  type |-> Absent, page |-> Absent, section |-> Absent]
            ELSE [threw |-> FALSE, project |-> field(decoded, 1),
                  version |-> field(decoded, 2), type |-> field(decoded, 3),
                  page |-> field(decoded, 4), section |-> field(decoded, 5)]
        decodeAll(parts) ==
            destructure([i \in 1..Len(parts) |-> decodeURIComponent(parts[i])])
        slice1(str) == SubSeq(str, 2, Len(str))
    IN  decodeAll(split(slice1(locationHash(fragment)), "/"))

\* the characters of the identities that are encoded
CodecChars == {"x", "/", "#", "%", " ", "2"}

\* the characters of the fragments that are parsed
RawChars == {"x", "/", "%", "2"}

Identities ==
    [project : {Str(c) : c \in NonEmptyStrings(CodecChars, 1)},
     version : {Str(c) : c \in NonEmptyStrings(CodecChars, 1)},
     type : {Str(c) : c \in NonEmptyStrings(CodecChars, 1)},
     page : {Str(c) : c \in NonEmptyStrings(CodecChars, MaxSegLen)},
     section : {Absent} \cup {Str(c) : c \in NonEmptyStrings(CodecChars, 1)}]

\* the fragment in place when createHash is called
CurrentFragments == {<<"Intern", "4", "docs", "a.md">>, <<"Nope">>}

CodecInit ==
    /\ ViewerInit({<<"">>})
    /\ \/ \E h \in CurrentFragments : \E p \in Identities :
              call = [fn |-> "createHash", state |-> "called", current |-> h, p |-> p]
       \/ \E f \in Strings(RawChars, MaxRawLen) :
              call = [fn |-> "parseHash", state |-> "called", fragment |-> f]

\* location.hash = createHash(p), then parseHash()
encodeThenParse ==
    /\ call.fn = "createHash"
    /\ call.state = "called"
    /\ LET parsed(created) ==
               [fn |-> "createHash", state |-> "returned", current |-> call.current,
                p |-> call.p, created |-> created,
                parsed |-> IF created.threw THEN parseHashChars(<<>>)
                           ELSE parseHashChars(fragmentOf(created.chars))]
       IN  call' = parsed(createHashChars(call.current, call.p))
    /\ UNCHANGED viewerVars

\* parseHash() on a fragment the user put in place
parse ==
    /\ call.fn = "parseHash"
    /\ call.state = "called"
    /\ call' = [fn |-> "parseHash", state |-> "returned", fragment |-> call.fragment,
                parsed |-> parseHashChars(call.fragment)]
    /\ UNCHANGED viewerVars

CodecNext == encodeThenParse \/ parse

SpecCodec == CodecInit /\ [][CodecNext]_vars

----------------------------------------------------------------------------
(* The debounce timers of the search input and of the scroll tracking
   (doc_viewer.ts:186-187, 273-308), with the browser's timer table and a
   clock.  A timer that is due fires before anything else happens. *)

MaxTime == 5       \* the clock stops here
MaxEvents == 3     \* input, scroll and showPage events in one behaviour

\* the delays, in clock ticks (300 ms and 20 ms in the source)
searchDelay == 3

menuHighlightDelay == 2

InputValues == {"a", "b"}

\* setTimeout: a new id, never reused; ids start at 1
setTimeout(t, kind, delay) ==
    [t EXCEPT !.pending = @ \cup {[id |-> t.nextId, kind |-> kind, due |-> t.now + delay]},
              !.nextId = @ + 1]

\* a clearTimeout that cancels nothing
clearTimeout_noop(t, id) == t

\* clearTimeout: no effect on an id that has fired or was never issued
clearTimeout(t, id) == [t EXCEPT !.pending = {x \in @ : x.id # id}]

Due(t) == {x \in t.pending : x.due <= t.now}

\* 0 stands for `undefined` in searchTimer and menuTimer
DebounceInit ==
    /\ ViewerInit({<<"">>})
    /\ call = [fn |-> "debounce", now |-> 0, nextId |-> 1, pending |-> {},
               searchTimer |-> 0, menuTimer |-> 0, ignoreScroll |-> FALSE,
               value |-> "", events |-> 0,
               \* history: the time of the last input event and of the last
               \* scroll event that was not ignored (-1: none so far), the
               \* number of bursts, the searches and the updates made
               lastInput |-> -1, lastScroll |-> -1,
               inputBursts |-> 0, scrollBursts |-> 0,
               searches |-> <<>>, updates |-> <<>>]

\* the 'input' listener of the search panel (doc_viewer.ts:274-282)
inputEvent(v) ==
    /\ call.fn = "debounce"
    /\ call.events < MaxEvents
    /\ Due(call) = {}
    /\ LET typed == [call EXCEPT !.value = v, !.events = @ + 1,
                                 !.lastInput = call.now,
                                 !.inputBursts =
                                     IF call.lastInput >= 0
                                        /\ call.now - call.lastInput < searchDelay
                                     THEN @ ELSE @ + 1]
           schedule(t) == [setTimeout(t, "search", searchDelay)
                              EXCEPT !.searchTimer = t.nextId]
       IN  call' = schedule(IF call.searchTimer # 0
                            THEN clearTimeout(typed, call.searchTimer) ELSE typed)
    /\ UNCHANGED viewerVars

\* the search timer fires: search(event.target.value), the value the input
\* holds now; searchTimer keeps the id
searchTimeout ==
    /\ call.fn = "debounce"
    /\ \E x \in Due(call) :
           /\ x.kind = "search"
           /\ call' = [call EXCEPT !.pending = @ \ {x},
                                   !.searches = Append(@, [at |-> call.now,
                                                           value |-> call.value])]
    /\ UNCHANGED viewerVars

\* showPage sets ignoreScroll (doc_viewer.ts:680)
pageShown ==
    /\ call.fn = "debounce"
    /\ call.events < MaxEvents
    /\ Due(call) = {}
    /\ ~call.ignoreScroll
    /\ call' = [call EXCEPT !.ignoreScroll = TRUE, !.events = @ + 1]
    /\ UNCHANGED viewerVars

\* the 'scroll' listener of .docs-content (doc_viewer.ts:295-308)
scrollEvent ==
    /\ call.fn = "debounce"
    /\ call.events < MaxEvents
    /\ Due(call) = {}
    /\ LET ignoring == call.ignoreScroll
           seen == [call EXCEPT !.ignoreScroll = FALSE, !.events = @ + 1]
           counted == [seen EXCEPT !.lastScroll = call.now,
                                   !.scrollBursts =
                                       IF call.lastScroll >= 0
                                          /\ call.now - call.lastScroll < menuHighlightDelay
                                       THEN @ ELSE @ + 1]
           schedule(t) == [setTimeout(t, "scroll", menuHighlightDelay)
                              EXCEPT !.menuTimer = t.nextId]
       IN  call' = IF ignoring THEN seen
                   ELSE schedule(IF call.menuTimer # 0
                                 THEN clearTimeout(counted, call.menuTimer)
                                 ELSE counted)
    /\ UNCHANGED viewerVars

\* the scroll timer fires: menuTimer = undefined; updateHashFromContent()
scrollTimeout ==
    /\ call.fn = "debounce"
    /\ \E x \in Due(call) :
           /\ x.kind = "scroll"
           /\ call' = [call EXCEPT !.pending = @ \ {x},
                                   !.menuTimer = 0,
                                   !.updates = Append(@, [at |-> call.now])]
    /\ UNCHANGED viewerVars

\* time passes
tick ==
    /\ call.fn = "debounce"
    /\ call.now < MaxTime
    /\ Due(call) = {}
    /\ call' = [call EXCEPT !.now = @ + 1]
    /\ UNCHANGED viewerVars

DebounceNext ==
    \/ \E v \in InputValues : inputEvent(v)
    \/ searchTimeout
    \/ pageShown
    \/ scrollEvent
    \/ scrollTimeout
    \/ tick

SpecDebounce == DebounceInit /\ [][DebounceNext]_vars

----------------------------------------------------------------------------
(* The heading tree of createMenu / renderMenu (doc_viewer.ts:548-598,
   render.ts:285-339).  A page is the sequence of the levels of its headings
   in document order; a node is the position of its heading, 0 for the root
   created when the page has no <h1>. *)

MaxHeadings == 5

maxDepth == 3

HeadingLevels == 1..4

RECURSIVE Reverse(_)
Reverse(s) == IF s = <<>> THEN <<>> ELSE Append(Reverse(Tail(s)), Head(s))

\* page.element.querySelector('h1'): the first <h1>, or the made-up root
rootOf(levels) ==
    IF \E i \in 1..Len(levels) : levels[i] = 1
    THEN CHOOSE i \in 1..Len(levels) :
             levels[i] = 1 /\ \A j \in 1..(i - 1) : levels[j] # 1
    ELSE 0

\* querySelectorAll('h2,h3'): the positions of the headings of level
\* 2..maxDepth, in document order
RECURSIVE menuHeadings(_, _)
menuHeadings(levels, i) ==
    IF i > Len(levels) THEN <<>>
    ELSE (IF levels[i] \in 2..maxDepth THEN <<i>> ELSE <<>>)
         \o menuHeadings(levels, i + 1)

levelOf(levels, node) == IF node = rootOf(levels) THEN 1 ELSE levels[node]

\* a shift of the stack without the reverse()
shiftStack_unreversed(t) ==
    [stack |-> Tail(t.stack),
     children |-> [t.children EXCEPT ![t.stack[2][1]] = t.stack[1]]]

\* children = stack.shift().reverse(); stack[0][0].children = children
shiftStack(t) ==
    [stack |-> Tail(t.stack),
     children |-> [t.children EXCEPT ![t.stack[2][1]] = Reverse(t.stack[1])]]

\* while (stack[0][0].level > level)
RECURSIVE unwind(_, _, _)
unwind(levels, t, level) ==
    IF levelOf(levels, t.stack[1][1]) > level
    THEN unwind(levels, shiftStack(t), level)
    ELSE t

\* stack[0].unshift(newNode) when the levels agree, stack.unshift([newNode])
\* otherwise
place(levels, t, node) ==
    IF levels[node] = levelOf(levels, t.stack[1][1])
    THEN [t EXCEPT !.stack[1] = <<node>> \o @]
    ELSE [t EXCEPT !.stack = <<(<<node>>)>> \o @]

\* the loop over the headings
RECURSIVE addHeadings(_, _, _)
addHeadings(levels, t, hs) ==
    IF hs = <<>> THEN t
    ELSE addHeadings(levels,
                     place(levels,
                           IF levels[Head(hs)] < levelOf(levels, t.stack[1][1])
                           THEN unwind(levels, t, levels[Head(hs)]) ELSE t,
                           Head(hs)),
                     Tail(hs))

\* while (stack.length > 1)
RECURSIVE closeStack(_)
closeStack(t) == IF Len(t.stack) > 1 THEN closeStack(shiftStack(t)) ELSE t

\* the tree of one page: the root and the children of every node
headingTree(levels) ==
    [root |-> rootOf(levels),
     children |-> closeStack(addHeadings(levels,
                                         [stack |-> <<(<<rootOf(levels)>>)>>,
                                          children |-> [n \in 0..Len(levels) |-> <<>>]],
                                         menuHeadings(levels, 1))).children]

RECURSIVE LevelSeqs(_)
LevelSeqs(n) ==
    IF n = 0 THEN {<<>>}
    ELSE LevelSeqs(n - 1)
         \cup {Append(s, l) : s \in {x \in LevelSeqs(n - 1) : Len(x) = n - 1},
                              l \in HeadingLevels}

MenuInit ==
    /\ ViewerInit({<<"">>})
    /\ \E levels \in LevelSeqs(MaxHeadings) :
           call = [fn |-> "createMenu", state |-> "called", levels |-> levels]

\* the heading tree of one page is built
buildTree ==
    /\ call.fn = "createMenu"
    /\ call.state = "called"
    /\ call' = [fn |-> "createMenu", state |-> "returned", levels |-> call.levels,
                tree |-> headingTree(call.levels)]
    /\ UNCHANGED viewerVars

SpecMenu == MenuInit /\ [][buildTree]_vars

----------------------------------------------------------------------------
(* createSlugifier (doc_viewer.ts:1395-1414, render.ts:84-103).  A text is
   its sequence of characters. *)

MaxTexts == 3      \* calls of one slugifier

HeadingTexts ==
    {<<"S", "e", "t", "u", "p">>, <<"a">>, <<"a", " ", "1">>, <<"a", " ", " ", "1">>,
     <<"a", "-", "1">>, <<"\\u00e9">>,
     <<"C", "o", "n", "s", "t", "r", "u", "c", "t", "o", "r">>}

\* String.prototype.toLowerCase on the characters of the texts
toLowerCase(c) == CASE c = "S" -> "s" [] c = "C" -> "c" [] OTHER -> c

\* the characters /[^A-Za-z0-9_ ]/ leaves in place
SlugChars ==
    {"a", "c", "e", "n", "o", "p", "r", "s", "t", "u", "C", "S", "1", "_", " "}

\* str.toLowerCase().replace(/[^A-Za-z0-9_ ]/g, '').replace(/\s+/g, '-')
RECURSIVE baseSlug(_, _)
baseSlug(text, afterSpace) ==
    IF text = <<>> THEN <<>>
    ELSE LET c == toLowerCase(Head(text))
         IN  IF c \notin SlugChars THEN baseSlug(Tail(text), afterSpace)
             ELSE IF c = " "
             THEN (IF afterSpace THEN <<>> ELSE <<"-">>) \o baseSlug(Tail(text), TRUE)
             ELSE <<c>> \o baseSlug(Tail(text), FALSE)

\* the keys an object literal inherits with a truthy value; the cache of
\* render.ts has no prototype
InheritedKeys(file) ==
    IF file = "doc_viewer.ts"
    THEN {<<"c", "o", "n", "s", "t", "r", "u", "c", "t", "o", "r">>,
          <<"_", "_", "p", "r", "o", "t", "o", "_", "_">>}
    ELSE {}

\* cache[slug] is truthy
cached(c, slug) == slug \in c.cache \/ slug \in InheritedKeys(c.file)

DecimalDigits == <<"0", "1", "2", "3", "4", "5", "6", "7", "8", "9">>

\* `${i}`
RECURSIVE decimal(_)
decimal(i) ==
    IF i < 10 THEN <<DecimalDigits[i + 1]>>
    ELSE Append(decimal(i \div 10), DecimalDigits[(i % 10) + 1])

\* a suffix search that stops at `${slug}-1`
nextFree_first(c, slug, i) == slug \o <<"-">> \o decimal(i)

\* the while loop: the first `${slug}-${i}` the cache does not hold
RECURSIVE nextFree(_, _, _)
nextFree(c, slug, i) ==
    IF cached(c, slug \o <<"-">> \o decimal(i)) THEN nextFree(c, slug, i + 1)
    ELSE slug \o <<"-">> \o decimal(i)

\* the function createSlugifier returns, applied to str
slugOf(c, str) ==
    IF cached(c, baseSlug(str, FALSE)) THEN nextFree(c, baseSlug(str, FALSE), 1)
    ELSE baseSlug(str, FALSE)

SlugInit ==
    /\ ViewerInit({<<"">>})
    /\ \E file \in {"doc_viewer.ts", "render.ts"} :
           call = [fn |-> "slugify", file |-> file, cache |-> {},
                   texts |-> <<>>, slugs |-> <<>>]

\* one call of the slugifier: cache[slug] = true; return slug
slugify(str) ==
    /\ call.fn = "slugify"
    /\ Len(call.texts) < MaxTexts
    /\ call' = [call EXCEPT !.cache = @ \cup {slugOf(call, str)},
                            !.texts = Append(@, str),
                            !.slugs = Append(@, slugOf(call, str))]
    /\ UNCHANGED viewerVars

SlugNext == \E str \in HeadingTexts : slugify(str)

SpecSlug == SlugInit /\ [][SlugNext]_vars

----------------------------------------------------------------------------
(* renderApiPages (render_api.ts:38-100): the modules are rendered one after
   the other, then the links collected on the way are resolved.  The API
   data is a project (id 0) with the external modules "lib/A" (id 1) and
   "lib/B" (id 2), the function f (id 3) of A, the class K (id 4) and the
   function g (id 5) of B, and a declaration G (id 6) directly below the
   project.  No declaration has the id 9.  A name is the sequence of its
   pieces, "." and "//" being pieces of their own. *)

MaxRefs == 2        \* type references and [[...]] links in module A

ApiModuleIds == <<1, 2>>

apiName(id) ==
    CASE id = 1 -> "lib/A" [] id = 2 -> "lib/B" [] id = 3 -> "f"
      [] id = 4 -> "K" [] id = 5 -> "g" [] OTHER -> "G"

apiParent(id) == CASE id \in {1, 2, 6} -> 0 [] id = 3 -> 1 [] OTHER -> 2

apiKind(id) ==
    CASE id \in {1, 2} -> "External module" [] id = 4 -> "Class"
      [] id \in {3, 5} -> "Function" [] id = 6 -> "Variable" [] OTHER -> "Project"

\* createApiIndex: every declaration reachable through `children`
apiIndex == 1..6

\* the id slugify gives the heading of a declaration
headingId(id) ==
    CASE id = 1 -> "liba" [] id = 2 -> "libb" [] id = 3 -> "f"
      [] id = 4 -> "k" [] id = 5 -> "g" [] OTHER -> "G"

\* findModule: up the parents to the external module; undefined (0) when
\* the id is not in the index or no ancestor is a module
RECURSIVE findModule(_)
findModule(id) ==
    IF id \notin apiIndex THEN 0
    ELSE IF apiKind(id) = "External module" THEN id
    ELSE findModule(apiParent(id))

\* findReflectionByName from the project: the child whose name is the part
\* before the first dot, then the rest in that child; -1 when not found
getReflectionIdForName(name) ==
    LET top == {id \in {1, 2, 6} : apiName(id) = name[1]}
    IN  IF top = {} THEN -1
        ELSE IF Len(name) = 1 THEN CHOOSE id \in top : TRUE
        ELSE LET below == {id \in apiIndex : /\ apiParent(id) \in top
                                              /\ Len(name) = 3 /\ name[2] = "."
                                              /\ apiName(id) = name[3]}
             IN  IF below = {} THEN -1 ELSE CHOOSE id \in below : TRUE

\* the href of a link: none, a text, or a fragment made by createHash
NoHref == [form |-> "none"]

ApiFragment(page, section) ==
    [form |-> "fragment", project |-> "Intern", version |-> "3", type |-> "api",
     page |-> page, section |-> section]

\* renderText turns [[name]] into [..](api:name); then the link_open rule of
\* renderMarkdown (render.ts:214-257) rewrites every target without '//':
\* a target with a dot becomes page `pageBase + 'api:' + head`, section the
\* piece after the first dot
linkOpen(name, page) ==
    IF "//" \in Range(name) THEN [form |-> "text", text |-> <<"api:">> \o name]
    ELSE IF Len(name) >= 3 /\ name[2] = "."
    THEN ApiFragment(<<"lib/", "api:", name[1]>>, name[3])
    ELSE ApiFragment(<<"lib/", "api:">> \o name, UNDEFINED)

\* what a source of module A leaves behind: the link and, when it is to be
\* resolved later, its entry in linksToResolve (renderType pushes every
\* reference with an id; renderComment pushes the links whose href starts
\* with 'api:')
emitted(src) ==
    IF src.kind = "type"
    THEN [src |-> src, href |-> NoHref, pending |-> TRUE, id |-> src.id]
    ELSE LET href == linkOpen(src.name, "lib/A")
         IN  [src |-> src, href |-> href,
              pending |-> href.form = "text",
              id |-> IF href.form = "text" THEN getReflectionIdForName(src.name)
                     ELSE -1]

RECURSIVE emitAll(_)
emitAll(srcs) == IF srcs = <<>> THEN <<>> ELSE <<emitted(Head(srcs))>> \o emitAll(Tail(srcs))

ApiSources ==
    [kind : {"type"}, id : {2, 4, 6, 9}]
    \cup [kind : {"name"}, name : {<<"lib/B", ".", "K">>, <<"K">>, <<"//", "x">>}]

RECURSIVE SourceSeqs(_)
SourceSeqs(n) ==
    IF n = 0 THEN {<<>>}
    ELSE SourceSeqs(n - 1)
         \cup {Append(q, x) : q \in {y \in SourceSeqs(n - 1) : Len(y) = n - 1},
                              x \in ApiSources}

ApiInit ==
    /\ ViewerInit({<<"">>})
    /\ \E sources \in SourceSeqs(MaxRefs) : \E bare \in {0, 3, 5} :
           call = [fn |-> "renderApiPages", phase |-> "modules", walked |-> 0,
                   sources |-> sources,
                   bare |-> bare,           \* the function without `signatures`
                   pages |-> <<>>, headings |-> {}, links |-> <<>>, resolved |-> 0]

\* the declarations renderModule renders after the module heading: classes
\* before functions
apiExports(m) == IF m = 1 THEN <<3>> ELSE <<4, 5>>

\* the headings made until renderFunction reads the missing `signatures`
RECURSIVE headingsUntil(_, _)
headingsUntil(decls, bare) ==
    IF decls = <<>> THEN {}
    ELSE {Head(decls)} \cup (IF Head(decls) = bare THEN {}
                             ELSE headingsUntil(Tail(decls), bare))

\* one turn of the loop over the modules: pages.push(name), renderModule
renderModule ==
    /\ call.fn = "renderApiPages"
    /\ call.phase = "modules"
    /\ LET m == ApiModuleIds[call.walked + 1]
           threw == call.bare \in Range(apiExports(m))
       IN  call' = [call EXCEPT
                       !.walked = @ + 1,
                       !.pages = Append(@, m),
                       !.headings = @ \cup {m} \cup headingsUntil(apiExports(m), call.bare),
                       !.links = IF m = 1 THEN emitAll(call.sources) ELSE @,
                       !.phase = IF threw THEN "threw"
                                 ELSE IF call.walked + 1 = Len(ApiModuleIds)
                                 THEN "links" ELSE "modules"]
    /\ UNCHANGED viewerVars

\* the pending links, by their position in call.links
PendingLinks == {i \in 1..Len(call.links) : call.links[i].pending}

\* one turn of the loop over linksToResolve
resolveLink ==
    /\ call.fn = "renderApiPages"
    /\ call.phase = "links"
    /\ \E i \in PendingLinks :
           /\ Cardinality({j \in PendingLinks : j < i}) = call.resolved
           /\ LET id == call.links[i].id
                  module == findModule(id)
                  section == IF module = id \/ id \notin call.headings THEN UNDEFINED
                             ELSE headingId(id)
              IN  call' =
                      IF id = -1 THEN [call EXCEPT !.resolved = @ + 1]
                      ELSE IF module = 0        \* pageIndex[module.id] on undefined
                      THEN [call EXCEPT !.phase = "threw"]
                      ELSE [call EXCEPT !.resolved = @ + 1,
                                        !.links[i].href =
                                            ApiFragment(<<apiName(module)>>, section)]
    /\ UNCHANGED viewerVars

\* the loop over linksToResolve ends
renderApiPagesReturns ==
    /\ call.fn = "renderApiPages"
    /\ call.phase = "links"
    /\ call.resolved = Cardinality(PendingLinks)
    /\ call' = [call EXCEPT !.phase = "returned"]
    /\ UNCHANGED viewerVars

ApiNext == renderModule \/ resolveLink \/ renderApiPagesReturns

SpecApi == ApiInit /\ [][ApiNext]_vars

----------------------------------------------------------------------------
(* filterGhContent (doc_viewer.ts:427-453, render.ts:397-423).  A text is a
   sequence of pieces: a character, or a whole marker ("S1", "E1": the
   vim-markdown-toc pair; "S2", "E2": the github-only pair).  "!S1" is what
   is left of the marker "S1" without its first character. *)

MaxPieces == 4

Markers == <<(<<"S1", "E1">>), <<"S2", "E2">>>>

MarkerPieces == {"S1", "E1", "S2", "E2"}

TextPieces == {"x", "\n"} \cup MarkerPieces

withoutFirstChar(piece) ==
    CASE piece = "S1" -> "!S1" [] piece = "E1" -> "!E1"
      [] piece = "S2" -> "!S2" [] OTHER -> "!E2"

\* text.indexOf(piece, from): the first position from `from` on, 0 for -1
indexOf(text, piece, from) ==
    IF \E i \in from..Len(text) : text[i] = piece
    THEN CHOOSE i \in from..Len(text) :
             text[i] = piece /\ \A j \in from..(i - 1) : text[j] # piece
    ELSE 0

\* text.slice(start): from the piece at `start`; `skipped` says that the
\* first character of that piece lies before the start
sliceFrom(text, start, skipped) ==
    IF start > Len(text) THEN <<>>
    ELSE IF skipped /\ text[start] \in MarkerPieces
    THEN <<withoutFirstChar(text[start])>> \o SubSeq(text, start + 1, Len(text))
    ELSE SubSeq(text, IF skipped THEN start + 1 ELSE start, Len(text))

\* the while loop for one marker pair.  `start = right + marker[1].length + 1`
\* lies one character behind the end marker: `start` is the piece after the
\* end marker and `skipped` holds from then on
RECURSIVE filterLoop(_, _, _, _, _, _)
filterLoop(text, marker, start, skipped, left, chunks) ==
    IF left = 0 THEN chunks \o sliceFrom(text, start, skipped)
    ELSE LET right == indexOf(text, marker[2], left)
             kept == chunks \o sliceFrom(SubSeq(text, 1, left - 1), start, skipped)
         IN  IF right = 0 THEN kept
             ELSE filterLoop(text, marker, right + 1, TRUE,
                             indexOf(text, marker[1], right + 2), kept)

filterPair(text, marker) ==
    filterLoop(text, marker, 1, FALSE, indexOf(text, marker[1], 1), <<>>)

\* markers.reduce(...)
filterGhContent(text) == filterPair(filterPair(text, Markers[1]), Markers[2])

RECURSIVE PieceSeqs(_)
PieceSeqs(n) ==
    IF n = 0 THEN {<<>>}
    ELSE PieceSeqs(n - 1)
         \cup {Append(q, x) : q \in {y \in PieceSeqs(n - 1) : Len(y) = n - 1},
                              x \in TextPieces}

FilterInit ==
    /\ ViewerInit({<<"">>})
    /\ \E text \in PieceSeqs(MaxPieces) :
           call = [fn |-> "filterGhContent", state |-> "called", text |-> text]

filter ==
    /\ call.fn = "filterGhContent"
    /\ call.state = "called"
    /\ call' = [fn |-> "filterGhContent", state |-> "returned", text |-> call.text,
                result |-> filterGhContent(call.text)]
    /\ UNCHANGED viewerVars

SpecFilter == FilterInit /\ [][filter]_vars

----------------------------------------------------------------------------
(* The link_open rule of the markdown renderer (doc_viewer.ts:931-962,
   render.ts:214-257).  A link target and a page path are sequences of
   pieces: the characters '.', '/', '#' stand alone, a name is one piece. *)

\* String(object), as encodeURIComponent takes an object argument
ObjectChars == <<"[", "object", " ", "Object", "]">>

MdFiles == {"sibling.md", "other.md", "page.md"}

\* /\w+\.\w+/ on the pieces: a '.' between two names, or a file name
dottedName(file) ==
    \/ \E i \in 1..Len(file) : file[i] \in MdFiles
    \/ \E i \in 2..(Len(file) - 1) :
           /\ file[i] = "."
           /\ file[i - 1] \notin {".", "/"}
           /\ file[i + 1] \notin {".", "/"}

\* /\.md$/
endsWithMd(file) == file # <<>> /\ file[Len(file)] \in MdFiles

\* href.split('#'): [file, hash]; hash is undefined when there is no '#'
hrefFile(href) == split(href, "#")[1]

hrefHash(href) ==
    IF Len(split(href, "#")) > 1 THEN Str(split(href, "#")[2]) ELSE Absent

\* file.replace(/^\.\//, '')
cleanFile(file) ==
    IF Len(file) >= 2 /\ file[1] = "." /\ file[2] = "/"
    THEN SubSeq(file, 3, Len(file)) ELSE file

\* page.slice(0, page.lastIndexOf('/') + 1), '' for a page without '/'
pageBase(page) ==
    IF \A i \in 1..Len(page) : page[i] # "/" THEN <<>>
    ELSE SubSeq(page, 1, CHOOSE k \in 1..Len(page) :
                             page[k] = "/" /\ \A j \in (k + 1)..Len(page) : page[j] # "/")

\* /\/\//.test(file)
hasDoubleSlash(file) ==
    \E i \in 1..(Len(file) - 1) : file[i] = "/" /\ file[i + 1] = "/"

\* createHash(info) for an argument that names some of the keys: a key that
\* is present overrides the default, also when its value is undefined
createHashGiven(h, ap, info) ==
    LET given(f, default) == IF f \in DOMAIN info THEN info[f] ELSE default
        tail(page, section) ==
            IF Truthy(page)
            THEN <<page>> \o (IF Truthy(section) THEN <<section>> ELSE <<>>)
            ELSE <<>>
        parts(currentDocs) ==
            <<given("project", Str(<<currentDocs.project>>)),
              given("version", Str(<<currentDocs.version>>)),
              given("type", Str(<<"docs">>))>>
            \o tail(given("page", Absent), given("section", Absent))
        encode(ps) ==
            <<"#">> \o join([i \in 1..Len(ps) |->
                               encodeURIComponentChars(CharsOf(ps[i]))], "/")
    IN  IF getDocInfoThrows(h) THEN [threw |-> TRUE, chars |-> <<>>]
        ELSE [threw |-> FALSE, chars |-> encode(parts(getDocInfo(h, ap)))]

\* the target is left as the author wrote it
hrefKept(href) == [threw |-> FALSE, chars |-> href]

\* doc_viewer.ts:931-962.  env.page is the object handed to render():
\* { page: name } for a docs page, { page, type: 'api' } for an API page.
viewerLinkOpen(h, ap, envPage, href) ==
    IF hrefFile(href) = <<>>
    THEN createHashGiven(h, ap, [page |-> Str(ObjectChars), section |-> hrefHash(href)])
    ELSE IF hasDoubleSlash(hrefFile(href)) THEN hrefKept(href)
    ELSE createHashGiven(h, ap,
             [page |-> Str(pageBase(envPage.page) \o cleanFile(hrefFile(href))),
              section |-> hrefHash(href),
              type |-> envPage.type])

\* render.ts:214-257.  The environment is { info, slugify }: env.page is
\* undefined, env.info is { page } or { page, type: 'api' }.
renderLinkOpen(h, ap, envInfo, href) ==
    LET dotted(file) == split(file, ".")
        member(file) == IF Len(dotted(file)) > 1 THEN Str(dotted(file)[2]) ELSE Absent
        rewrite(file) ==
            IF /\ envInfo.type = Str(<<"api">>)
               /\ dottedName(file)
               /\ ~endsWithMd(file)
            THEN createHashGiven(h, ap,
                     [page |-> Str(pageBase(envInfo.page) \o dotted(file)[1]),
                      section |-> member(file),
                      type |-> envInfo.type])
            ELSE createHashGiven(h, ap,
                     [page |-> Str(pageBase(envInfo.page) \o file),
                      section |-> hrefHash(href),
                      type |-> envInfo.type])
    IN  IF hrefFile(href) = <<>>
        THEN createHashGiven(h, ap, [page |-> Absent, section |-> hrefHash(href)])
        ELSE IF hasDoubleSlash(hrefFile(href)) THEN hrefKept(href)
        ELSE rewrite(cleanFile(hrefFile(href)))

\* the pages being rendered
LinkPages ==
    {<<"dir", "/", "page.md">>, <<"page.md">>, <<"dir", "/", "sub", "/", "page.md">>,
     <<"lib", "/", "M">>}

LinkFrags == {<<>>, <<"#", "frag">>, <<"#", "other">>}

\* the link targets found in a page
LinkTargets ==
    {prefix \o <<file>> \o frag :
         prefix \in {<<>>, <<".", "/">>}, file \in {"sibling.md", "other.md"},
         frag \in LinkFrags}
    \cup {<<"#", "frag">>, <<"#", "other">>, <<"B", ".", "K">>,
          <<"http:", "/", "/", "x">>}

\* the fragment in place while the page is rendered: a page of the doc set
LinkFragments == {<<"Intern", "4", "docs", "a.md">>, <<"Intern", "3", "docs", "a.md">>}

LinkInit ==
    /\ ViewerInit({<<"">>})
    /\ \E rule \in {"doc_viewer", "render"} : \E h \in LinkFragments :
       \E page \in LinkPages : \E type \in {Absent, Str(<<"api">>)} :
       \E href \in LinkTargets :
           call = [fn |-> "link_open", state |-> "called", rule |-> rule,
                   current |-> h, env |-> [page |-> page, type |-> type],
                   href |-> href]

\* what follows the rule: the anchor carries the target, and a click puts
\* it in place as the fragment that parseHash reads
linkRendered(created) ==
    [fn |-> "link_open", state |-> "returned", rule |-> call.rule,
     current |-> call.current, env |-> call.env, href |-> call.href,
     created |-> created,
     parsed |-> IF created.threw THEN parseHashChars(<<>>)
                ELSE parseHashChars(fragmentOf(created.chars))]

viewerLink ==
    /\ call.fn = "link_open"
    /\ call.state = "called"
    /\ call.rule = "doc_viewer"
    /\ call' = linkRendered(viewerLinkOpen(call.current, apiPages, call.env, call.href))
    /\ UNCHANGED viewerVars

renderLink ==
    /\ call.fn = "link_open"
    /\ call.state = "called"
    /\ call.rule = "render"
    /\ call' = linkRendered(renderLinkOpen(call.current, apiPages, call.env, call.href))
    /\ UNCHANGED viewerVars

LinkNext == viewerLink \/ renderLink

SpecLinks == LinkInit /\ [][LinkNext]_vars

----------------------------------------------------------------------------
(* The registry lookups of docs.ts (110-126, 149-205) and the getDocSet of
   the later revision (part_011:131-137), on a registry `docsets` that is
   part of the input: the project 'Intern' with its version keys in the
   order they were written, and the tags `latest` and `next`. *)

MaxVersions == 3    \* version keys of the project

VersionKeys == {"3", "4", "10", "v5"}

\* the value of a key that is an array index
keyNumber(k) ==
    CASE k = "3" -> 3
      [] k = "4" -> 4
      [] k = "10" -> 10
      [] OTHER -> -1

RECURSIVE ascending(_)
ascending(ks) ==
    IF ks = {} THEN <<>>
    ELSE LET least(s) == CHOOSE k \in s : \A j \in s : keyNumber(k) <= keyNumber(j)
         IN  <<least(ks)>> \o ascending(ks \ {least(ks)})

\* Object.keys(versions): the index keys in ascending numeric order, then
\* the other keys in the order they were written
ObjectKeys(written) ==
    ascending({written[i] : i \in {j \in 1..Len(written) : keyNumber(written[j]) >= 0}})
    \o SelectSeq(written, LAMBDA k : keyNumber(k) < 0)

\* versions.indexOf(v), 0 for -1
versionIndex(keys, v) ==
    IF \E i \in 1..Len(keys) : keys[i] = v
    THEN CHOOSE i \in 1..Len(keys) : keys[i] = v
    ELSE 0

\* docset.versions[v]: version 3 has an empty page list, version 4 a docBase
versionDocs(docset, v) ==
    IF \E i \in 1..Len(docset.versions) : docset.versions[i] = v
    THEN [defined |-> TRUE,
          pages |-> IF v = "3" THEN <<>> ELSE <<"a.md">>,
          docBase |-> IF v = "4" THEN "docBase" ELSE UNDEFINED]
    ELSE [defined |-> FALSE]

\* docsets[project]
projectOf(docsets, project) ==
    IF project \in DOMAIN docsets THEN docsets[project] ELSE [defined |-> FALSE]

TypeError == [threw |-> TRUE]

Returned(value) == [threw |-> FALSE, value |-> value]

\* a getLatestVersion that takes the first key where no version is tagged
getLatestVersion_first(docsets, project) ==
    LET result(docset, version) ==
            Returned([version |-> version, docs |-> versionDocs(docset, version)])
        lookup(docset) ==
            IF ~docset.defined THEN TypeError
            ELSE IF ~Falsy(docset.latest) THEN result(docset, docset.latest)
            ELSE result(docset, ObjectKeys(docset.versions)[1])
    IN  lookup(projectOf(docsets, project))

\* docs.ts:164-172
getLatestVersion(docsets, project) ==
    LET result(docset, version) ==
            Returned([version |-> version, docs |-> versionDocs(docset, version)])
        lastKey(keys) == IF keys = <<>> THEN UNDEFINED ELSE keys[Len(keys)]
        lookup(docset) ==
            IF ~docset.defined THEN TypeError
            ELSE IF ~Falsy(docset.latest) THEN result(docset, docset.latest)
            ELSE result(docset, lastKey(ObjectKeys(docset.versions)))
    IN  lookup(projectOf(docsets, project))

\* docs.ts:179-191
getNextVersion(docsets, project) ==
    LET result(docset, version) ==
            Returned([version |-> version, docs |-> versionDocs(docset, version)])
        after(keys, idx) ==
            IF idx # 0 /\ idx + 1 <= Len(keys) /\ ~Falsy(keys[idx + 1])
            THEN keys[idx + 1] ELSE UNDEFINED
        fallback(docset, keys, latestVersion) ==
            result(docset, after(keys, versionIndex(keys, latestVersion.value.version)))
        lookup(docset) ==
            IF ~docset.defined THEN TypeError
            ELSE IF ~Falsy(docset.next) THEN result(docset, docset.next)
            ELSE fallback(docset, ObjectKeys(docset.versions),
                          getLatestVersion(docsets, project))
    IN  lookup(projectOf(docsets, project))

\* docs.ts:203-205
getVersions(docsets, project) ==
    IF ~projectOf(docsets, project).defined THEN TypeError
    ELSE Returned(ObjectKeys(docsets[project].versions))

\* docs.ts:149-158: dv.docBase, or a URL built from docset.url and dv.branch
getDocBaseUrl(docsets, info) ==
    LET build(dv) ==
            IF ~dv.defined THEN TypeError
            ELSE IF ~Falsy(dv.docBase) THEN Returned(<<dv.docBase>>)
            ELSE Returned(<<"raw.githubusercontent", info.project, info.version>>)
    IN  IF ~projectOf(docsets, info.project).defined THEN TypeError
        ELSE build(versionDocs(docsets[info.project], info.version))

\* docs.ts:110-126, called with a setId
getDocSet(docsets, setId) ==
    LET found(docset, version) ==
            Returned([defined |-> TRUE, project |-> setId.project, version |-> version,
                      docs |-> versionDocs(docset, version)])
        lookup(docset) ==
            IF ~docset.defined THEN Returned([defined |-> FALSE])
            ELSE found(docset, IF Falsy(setId.version) THEN docset.latest
                               ELSE setId.version)
    IN  lookup(projectOf(docsets, setId.project))

\* part_011:131-137: `throw new Error(...)` unless isValidDocSetId(id)
getDocSetById(docsets, id) ==
    IF \/ ~projectOf(docsets, id.project).defined
       \/ Falsy(id.version)
       \/ ~versionDocs(docsets[id.project], id.version).defined
    THEN [threw |-> TRUE]
    ELSE Returned(versionDocs(docsets[id.project], id.version))

\* the version keys of a registry, in the order they were written
WrittenKeys ==
    {s \in UNION {[1..n -> VersionKeys] : n \in 1..MaxVersions} :
         \A i, j \in 1..Len(s) : i # j => s[i] # s[j]}

keysOf(s) == {s[i] : i \in 1..Len(s)}

\* the registries: a tag, where there is one, names a version of the project
Registries ==
    {[Intern |-> [defined |-> TRUE, versions |-> s, latest |-> l, next |-> n]] :
         s \in WrittenKeys, l \in VersionKeys \cup {UNDEFINED},
         n \in VersionKeys \cup {UNDEFINED}}

TaggedInside(docsets) ==
    /\ docsets.Intern.latest \in keysOf(docsets.Intern.versions) \cup {UNDEFINED}
    /\ docsets.Intern.next \in keysOf(docsets.Intern.versions) \cup {UNDEFINED}

LookupFns == {"getLatestVersion", "getNextVersion", "getVersions"}

SetLookupFns == {"getDocBaseUrl", "getDocSet", "getDocSetById"}

DocsInit ==
    /\ ViewerInit({<<"">>})
    /\ \E docsets \in {r \in Registries : TaggedInside(r)} :
       \E project \in {"Intern", "Nope"} :
           \/ \E fn \in LookupFns :
                  call = [fn |-> fn, state |-> "called", docsets |-> docsets,
                          project |-> project, version |-> UNDEFINED]
           \/ \E fn \in SetLookupFns : \E version \in {"3", "4", "9", UNDEFINED} :
                  call = [fn |-> fn, state |-> "called", docsets |-> docsets,
                          project |-> project, version |-> version]

lookedUp(result) ==
    [fn |-> call.fn, state |-> "returned", docsets |-> call.docsets,
     project |-> call.project, version |-> call.version, result |-> result]

lookupVersion ==
    /\ call.fn \in LookupFns
    /\ call.state = "called"
    /\ call' = lookedUp(CASE call.fn = "getLatestVersion" ->
                                 getLatestVersion(call.docsets, call.project)
                          [] call.fn = "getNextVersion" ->
                                 getNextVersion(call.docsets, call.project)
                          [] OTHER -> getVersions(call.docsets, call.project))
    /\ UNCHANGED viewerVars

lookupDocSet ==
    /\ call.fn \in SetLookupFns
    /\ call.state = "called"
    /\ LET id == [project |-> call.project, version |-> call.version]
       IN  call' = lookedUp(CASE call.fn = "getDocBaseUrl" ->
                                     getDocBaseUrl(call.docsets, id)
                              [] call.fn = "getDocSet" -> getDocSet(call.docsets, id)
                              [] OTHER -> getDocSetById(call.docsets, id))
    /\ UNCHANGED viewerVars

DocsNext == lookupVersion \/ lookupDocSet

SpecDocs == DocsInit /\ [][DocsNext]_vars

----------------------------------------------------------------------------
(* formatSignature (part_012:1160-1343).  A text is the sequence of its
   characters; the positions are those of the source, counted from 0. *)

preferredSignatureWidth == 60

MaxTail == 3      \* characters after the long name of a signature
MaxRounds == 6    \* rounds of the outer loop that are followed

\* text[i], undefined outside the text
charAt(text, i) == IF i >= 0 /\ i < Len(text) THEN text[i + 1] ELSE UNDEFINED

\* text.slice(from, to)
slice(text, from, to) == SubSeq(text, from + 1, IF to > Len(text) THEN Len(text) ELSE to)

isOpen(text, i) == charAt(text, i) \in {"(", "{", "<"}

isClose(text, i) ==
    \/ charAt(text, i) \in {")", "}"}
    \/ charAt(text, i) = ">" /\ charAt(text, i - 1) # "="

\* the depth after the characters from..to of a loop that starts with
\* depth `depth`: one up for an opening character, one down for a closing one
depthAfter(text, from, to, depth) ==
    depth + Cardinality({k \in from..to : isOpen(text, k)})
          - Cardinality({k \in from..to : ~isOpen(text, k) /\ isClose(text, k)})

\* part_012:1261-1279: the first position where the depth is 0, -1 when
\* the group is not closed
findGroupEnd(text, start) ==
    LET closes(i) == depthAfter(text, start, i, 1) = 0
    IN  IF \E i \in start..(Len(text) - 1) : closes(i)
        THEN CHOOSE i \in start..(Len(text) - 1) :
                 closes(i) /\ \A k \in start..(i - 1) : ~closes(k)
        ELSE -1

\* the commas of text[start..end) that the loops of canSplit and splitList
\* meet at depth 0
listCommas(text, start, end) ==
    {i \in start..(end - 1) :
         /\ charAt(text, i) = ","
         /\ depthAfter(text, start, i - 1, 0) = 0}

\* part_012:1284-1301
canSplit(text, start, end) == listCommas(text, start, end) # {}

\* the elements of a set of positions in ascending order
RECURSIVE ascendingPositions(_)
ascendingPositions(ps) ==
    IF ps = {} THEN <<>>
    ELSE LET least(s) == CHOOSE i \in s : \A k \in s : i <= k
         IN  <<least(ps)>> \o ascendingPositions(ps \ {least(ps)})

\* part_012:1306-1327: a part ends behind its comma, and the next part
\* starts at i + 2, two positions behind the comma at i
splitList(text, start, end) ==
    LET partStart(commas, k) == IF k = 1 THEN start ELSE commas[k - 1] + 2
        parts(commas) ==
            [k \in 1..(Len(commas) + 1) |->
                slice(text, partStart(commas, k),
                      IF k <= Len(commas) THEN commas[k] + 1 ELSE end)]
    IN  parts(ascendingPositions(listCommas(text, start, end)))

\* the range inside the group that opens at i and ends at `end`
groupRange(text, i, end) ==
    IF charAt(text, i + 1) = " " THEN <<i + 2, end - 1>> ELSE <<i + 1, end>>

\* one loop of findSplitCandidate over the positions `opens` of the opening
\* characters (at every other position end = i and nothing is done);
\* `lists` is true in the first loop, which takes only the groups that
\* canSplit accepts.  best is <<>> for undefined.
RECURSIVE candidateFrom(_, _, _, _, _)
candidateFrom(text, opens, width, best, lists) ==
    LET taken(i, end) ==
            /\ end > i
            /\ lists => canSplit(text, i + 1, end)
            /\ best = <<>> \/ end - i > width
        next(i, end) ==
            IF taken(i, end)
            THEN candidateFrom(text, Tail(opens), end - i, groupRange(text, i, end), lists)
            ELSE candidateFrom(text, Tail(opens), width, best, lists)
    IN  IF opens = <<>> THEN [best |-> best, width |-> width]
        ELSE next(Head(opens), findGroupEnd(text, Head(opens) + 1))

\* part_012:1206-1256; the second loop starts with the width of the first
findSplitCandidate(text) ==
    LET second(opens, first) ==
            IF first.best = <<>>
            THEN candidateFrom(text, opens, first.width, <<>>, FALSE).best
            ELSE first.best
        loops(opens) == second(opens, candidateFrom(text, opens, 0, <<>>, TRUE))
    IN  loops(ascendingPositions({i \in 0..(Len(text) - 1) : isOpen(text, i)}))

\* part_012:1332-1338: the text before its first character that is not
\* blank, '' for a text of blanks
getIndent(text) ==
    LET blank(i) == charAt(text, i) \in {" ", "\n"}
    IN  IF \A i \in 0..(Len(text) - 1) : blank(i) THEN <<>>
        ELSE slice(text, 0, CHOOSE i \in 0..(Len(text) - 1) :
                                ~blank(i) /\ \A k \in 0..(i - 1) : blank(k))

\* the lines that take the place of a line that is too long
splitLine(text, range) ==
    LET indented(parts) ==
            [k \in 1..Len(parts) |->
                getIndent(text) \o <<" ", " ", " ", " ">> \o parts[k]]
    IN  <<slice(text, 0, range[1])>>
        \o indented(splitList(text, range[1], range[2]))
        \o <<getIndent(text) \o slice(text, range[2], Len(text))>>

\* the inner loop: one round over the lines
RECURSIVE formatRound(_, _, _)
formatRound(input, output, changed) ==
    LET replaced(text, range) ==
            IF range = <<>> THEN formatRound(Tail(input), Append(output, text), changed)
            ELSE formatRound(Tail(input), output \o splitLine(text, range), TRUE)
    IN  IF input = <<>> THEN [output |-> output, changed |-> changed]
        ELSE IF Len(Head(input)) <= preferredSignatureWidth
        THEN formatRound(Tail(input), Append(output, Head(input)), changed)
        ELSE replaced(Head(input), findSplitCandidate(Head(input)))

\* the outer loop, followed for `rounds` rounds
RECURSIVE formatLoop(_, _, _)
formatLoop(output, changed, rounds) ==
    LET continue(round) == formatLoop(round.output, round.changed, rounds - 1)
    IN  IF ~(changed /\ \E k \in 1..Len(output) :
                            Len(output[k]) > preferredSignatureWidth)
        THEN [finished |-> TRUE, text |-> join(output, "\n")]
        ELSE IF rounds = 0 THEN [finished |-> FALSE, text |-> join(output, "\n")]
        ELSE continue(formatRound(output, <<>>, FALSE))

\* part_012:1160-1201
formatSignature(text) ==
    IF Len(text) <= preferredSignatureWidth THEN [finished |-> TRUE, text |-> text]
    ELSE formatLoop(<<text>>, TRUE, MaxRounds)

\* a name of n characters
LongName(n) == [i \in 1..n |-> "a"]

SignatureHeads == {<<>>, <<"(">>, <<"{", " ">>, <<" ", "f", "<">>}

TailChars == {",", " ", "b", "(", ")"}

\* tails with a string-literal type and with an arrow
LiteralTails ==
    {<<",", "'", ",", "'", ")">>, <<",", " ", "'", ")", "'", ")">>,
     <<"=", ">", ",", " ", "b", ">">>, <<":", "'", "(", "'">>}

\* the signatures: a head, a name as wide as the preferred width, a tail
SignatureTexts ==
    {head \o LongName(preferredSignatureWidth) \o tail :
         head \in SignatureHeads,
         tail \in UNION {[1..n -> TailChars] : n \in 0..MaxTail} \cup LiteralTails}

FormatInit ==
    /\ ViewerInit({<<"">>})
    /\ \E text \in SignatureTexts :
           call = [fn |-> "formatSignature", state |-> "called", text |-> text]

format ==
    /\ call.fn = "formatSignature"
    /\ call.state = "called"
    /\ call' = [fn |-> "formatSignature", state |-> "returned", text |-> call.text,
                result |-> formatSignature(call.text)]
    /\ UNCHANGED viewerVars

SpecFormat == FormatInit /\ [][format]_vars

----------------------------------------------------------------------------
(* loadDocset on a doc set whose pages may lack an <h1> (doc_viewer.ts:
   329-413, 548-600).  The doc set is part of the input: for each page the
   kind of its first heading.  `ready` is resolved, so the reaction on a
   fetched page runs in the task in which the response arrives. *)

MaxPages == 3    \* pages of the doc set

\* the <h1> of a rendered page: none, one without text, one with text
H1Kinds == {"none", "empty", "text"}

PageName(i) == <<"page", i>>

\* (h1 && h1.textContent) || docset.project
titleOf(kind, project) == IF kind = "text" THEN "Heading" ELSE project

\* the reaction on one fetched page (doc_viewer.ts:372-389):
\* element.insertBefore(h1, ...) raises a TypeError when querySelector
\* returned null, and the cache is not written
pageReaction(c, i) ==
    IF c.h1[i] = "none"
    THEN [c EXCEPT !.fetches[i] = "threw"]
    ELSE [c EXCEPT !.fetches[i] = "done",
                   !.cache[i] = [defined |-> TRUE, name |-> PageName(i),
                                 title |-> titleOf(c.h1[i], c.project)]]

\* createMenu(docset, 'docs') (doc_viewer.ts:548-600): the root of a page is
\* the node of its <h1>, or the synthetic level-1 node of the catch branch
menuOf(c) ==
    [i \in 1..Len(c.h1) |->
        [page |-> PageName(i), title |-> c.cache[i].title,
         root |-> IF c.h1[i] = "none" THEN "synthetic" ELSE "h1"]]

\* Promise.all(loads): rejected with the first rejection, fulfilled when
\* every page is done; its reaction creates the menu, and the caller's
\* reaction shows the first page
settle(c) ==
    IF c.load # "pending" THEN c
    ELSE IF \E i \in 1..Len(c.h1) : c.fetches[i] = "threw"
    THEN [c EXCEPT !.load = "rejected"]
    ELSE IF \A i \in 1..Len(c.h1) : c.fetches[i] = "done"
    THEN [c EXCEPT !.load = "resolved",
                   !.menu = [defined |-> TRUE, items |-> menuOf(c)],
                   !.shown = PageName(1)]
    ELSE c

PagesInit ==
    /\ ViewerInit({<<"">>})
    /\ \E n \in 1..MaxPages : \E h1 \in [1..n -> H1Kinds] :
           call = [fn |-> "loadDocset", project |-> "Intern", h1 |-> h1,
                   fetches |-> [i \in 1..n |-> "pending"],
                   cache |-> [i \in 1..n |-> [defined |-> FALSE]],
                   load |-> "pending",
                   menu |-> [defined |-> FALSE],
                   shown |-> UNDEFINED]

\* the response of page i arrives
pageFetched(i) ==
    /\ call.fn = "loadDocset"
    /\ i \in 1..Len(call.h1)
    /\ call.fetches[i] = "pending"
    /\ call' = settle(pageReaction(call, i))
    /\ UNCHANGED viewerVars

PagesNext == \E i \in 1..MaxPages : pageFetched(i)

SpecPages == PagesInit /\ [][PagesNext]_vars

--------------------------------------------------------------------------
(* Fragments without a content type *)

\* fragments that name a doc set and stop before the content type, as in
\* '#Intern', '#Intern/4' or '#Intern/3/'; the empty fragment is the start
\* that the script itself rewrites
TypelessHashes ==
    {<<"">>, <<"Intern">>, <<"Intern", "">>, <<"Intern", "2">>,
     <<"Intern", "3">>, <<"Intern", "4">>, <<"Intern", "3", "">>,
     <<"Intern", "4", "">>, <<"Intern", "2", "">>}

TypelessInit == ViewerInit(TypelessHashes) /\ call = NoCall

SpecTypeless == TypelessInit /\ [][StartupNext]_vars

--------------------------------------------------------------------------
(* The ignoreScroll flag: showPage's own scrolling and the scroll listener
   (doc_viewer.ts:295-308, 666-678) *)

\* scroll events queued for the listener, and calls of showPage, in one run
MaxQueued == 3
MaxShows == 2

\* the number of scroll events on .docs-content that the scrolling at the
\* end of showPage causes: none when the position does not change
ProgrammaticScrolls == 0 .. 2

\* a sequence of n events of one origin
eventsOf(origin, n) == [i \in 1..n |-> origin]

IgnoreInit ==
    /\ ViewerInit({<<"">>})
    /\ call = [fn |-> "ignoreScroll", ignoreScroll |-> FALSE, menuTimer |-> FALSE,
               queue |-> <<>>, shows |-> 0,
               \* history: the scroll events delivered since the last
               \* showPage, the origins of the events that the flag made the
               \* listener drop and of those that armed the timer
               sinceShow |-> 0, dropped |-> {}, armed |-> {}]

\* the end of showPage: ignoreScroll = true, then scrollIntoView or
\* scrollTop = 0, whose scroll events are queued behind the waiting ones
showPageScrolls(n) ==
    /\ call.fn = "ignoreScroll"
    /\ call.shows < MaxShows
    /\ Len(call.queue) + n <= MaxQueued
    /\ call' = [call EXCEPT !.ignoreScroll = TRUE,
                            !.queue = @ \o eventsOf("showPage", n),
                            !.shows = @ + 1,
                            !.sinceShow = 0]
    /\ UNCHANGED viewerVars

\* the user scrolls the content
userScrolls ==
    /\ call.fn = "ignoreScroll"
    /\ call.shows > 0
    /\ Len(call.queue) < MaxQueued
    /\ call' = [call EXCEPT !.queue = Append(@, "user")]
    /\ UNCHANGED viewerVars

\* the 'scroll' listener runs for the first queued event
scrollListener ==
    /\ call.fn = "ignoreScroll"
    /\ call.queue # <<>>
    /\ LET origin == Head(call.queue)
           ignoring == call.ignoreScroll
           seen == [call EXCEPT !.ignoreScroll = FALSE,
                                !.queue = Tail(@),
                                !.sinceShow = IF @ < MaxQueued THEN @ + 1 ELSE @]
       IN  call' = IF ignoring
                   THEN [seen EXCEPT !.dropped = @ \cup {origin}]
                   ELSE [seen EXCEPT !.menuTimer = TRUE,
                                     !.armed = @ \cup {origin}]
    /\ UNCHANGED viewerVars

\* the scroll timer fires: menuTimer = undefined; updateHashFromContent()
menuTimerFires ==
    /\ call.fn = "ignoreScroll"
    /\ call.menuTimer
    /\ call' = [call EXCEPT !.menuTimer = FALSE]
    /\ UNCHANGED viewerVars

IgnoreNext ==
    \/ \E n \in ProgrammaticScrolls : showPageScrolls(n)
    \/ userScrolls
    \/ scrollListener
    \/ menuTimerFires

SpecIgnore == IgnoreInit /\ [][IgnoreNext]_vars

----------------------------------------------------------------------------
(* Properties *)

\* nothing is pending: no hashchange event, no fetch, no timer, no callback
Quiescent ==
    /\ started
    /\ readyState = "fired"
    /\ hashEvents = <<>>
    /\ ~menuTimer
    /\ earlyWaiters = <<>>
    /\ \A d \in DocSetIds : \A u \in Urls(d) : fetches[d][u] \notin {"pending", "fetched"}

\* every configured page of d is cached and d's docs menu holds all of them
DocsComplete(d) ==
    /\ pageCache[d].defined
    /\ Range(pages(d)) \subseteq pageCache[d].names
    /\ menu[d].defined
    /\ menu[d].items = pages(d)

FetchFailed(d) == \E u \in Urls(d) : fetches[d][u] = "failed"

\* C1: every page URL and the API data URL of a doc set is fetched at most
\* once, whatever the interleaving of processHash passes and fetch completions
C1_FetchedAtMostOnce ==
    \A d \in DocSetIds : \A u \in Urls(d) : fetchCount[d][u] <= 1

\* C1 witness: a second loadDocset call for a doc set was made and answered
\* while the first load of that doc set was in flight, after one set of fetches
C1_Witness ==
    /\ settled.any
    /\ settled.inFlight
    /\ loadState[settled.d] = "pending"
    /\ \A u \in Urls(settled.d) : fetchCount[settled.d][u] = 1

\* C2: a loadDocset promise for a doc set whose first load is in flight does
\* not resolve before every page is cached and the menu is built
C2_SecondCallerAwaitsFirstLoad ==
    (settled.any /\ settled.inFlight) => settled.complete

\* C3: a mounted menu or page belongs to a doc set whose pages are all
\* cached and whose menu has been built
C3_NoPartialDisplay ==
    /\ dom.menu.shown =>
           /\ DocsComplete(dom.menu.d)
           /\ dom.menu.kind = "api" =>
                  /\ apiMenu[dom.menu.d].defined
                  /\ apiMenu[dom.menu.d].items = apiPages[dom.menu.d].names
    /\ dom.page.shown => DocsComplete(dom.page.d)

\* C4: a completion callback that runs for a doc set other than the one the
\* fragment names leaves the container attributes, the menu and the page alone
C4_StaleLoadLeavesDom ==
    [][(lastCb' # lastCb /\ lastCb'.d # lastCb'.current) => dom' = dom]_vars

\* C5: the hashchange event of a scroll-driven setHash is handled with the
\* menu highlight only: the pass returns before it reaches the router
C5_ScrollRewriteOnlyHighlights ==
    lastPass.origin = "scroll" => ~lastPass.full

\* C6: in a quiescent state after a successful load the fragment, the
\* container attributes, the mounted menu and the mounted page agree
C6_FragmentMatchesView ==
    (Quiescent /\ HashValid(hash) /\ loadState[CurDocset(hash)] = "resolved") =>
        LET info == getDocInfo(hash, apiPages)
        IN  /\ dom.docProject = info.project
            /\ dom.docVersion = info.version
            /\ dom.menu.shown /\ dom.menu.kind = info.type
            /\ dom.page.shown /\ dom.page.d = CurDocset(hash)
            /\ dom.page.kind = info.type /\ dom.page.name = info.page

\* C7: a processHash pass on a fragment with an unknown project or version
\* raises no exception and ends with the fragment rewritten
C7_InvalidFragmentHandled ==
    LET invalid == \/ lastPass.project \notin Projects
                   \/ ~Falsy(lastPass.version)
                      /\ lastPass.version \notin Versions(lastPass.project)
    IN  (invalid /\ lastPass.outcome \notin {"none", "skipped"})
            => lastPass.outcome = "rewrote"

\* C8: once a valid doc set is loaded and everything has settled, the
\* fragment names one of the doc set's configured pages: an unknown page
\* was redirected to the first one
C8_InvalidPageRedirects ==
    (/\ Quiescent
     /\ HashValid(hash)
     /\ loadState[CurDocset(hash)] = "resolved"
     /\ parseHash(hash).type = "docs"
     /\ ~Falsy(parseHash(hash).page))
        => /\ parseHash(hash).page \in Range(pages(CurDocset(hash)))
           /\ dom.page.shown

\* C9: a doc set whose first load had a failing fetch is left not loaded
C9_FailedLoadNotCached ==
    \A d \in DocSetIds : FetchFailed(d) => ~pageCache[d].defined

\* C10: when a fetch of a load fails the load is rejected: no menu is built
\* for the doc set, the callback of the pass that started the load is
\* dropped, and no menu or page of the doc set is mounted
C10_FailedFetchRejectsLoad ==
    \A d \in DocSetIds : FetchFailed(d) =>
        /\ loadState[d] = "rejected"
        /\ ~firstWaiter[d].waiting
        /\ ~menu[d].defined /\ ~apiMenu[d].defined
        /\ ~(dom.menu.shown /\ dom.menu.d = d)
        /\ ~(dom.page.shown /\ dom.page.d = d)

\* C10 witness: one fetch failed, every other fetch delivered and its page
\* is cached, and a later pass asked for the doc set without mounting it
C10_Witness ==
    \E d \in DocSetIds :
        /\ FetchFailed(d)
        /\ \A u \in Urls(d) : fetches[d][u] \in {"done", "failed"}
        /\ pageCache[d].names # {}
        /\ lastCb.d = d /\ lastCb.outcome = "threw"

\* C11: once the first load of a doc set has completed, no step issues a
\* fetch for it or reassigns its pageCache, menu, apiPages (with apiCache)
\* or apiMenu
C11_CacheWrittenOnce ==
    [][\A d \in DocSetIds :
          loadState[d] = "resolved" =>
              /\ fetchCount'[d] = fetchCount[d]
              /\ fetches'[d] = fetches[d]
              /\ pageCache'[d] = pageCache[d]
              /\ menu'[d] = menu[d]
              /\ apiPages'[d] = apiPages[d]
              /\ apiMenu'[d] = apiMenu[d]
              /\ loadState'[d] = "resolved"]_vars

\* C11 witness: after a navigation away and back, a pass called loadDocset
\* on a doc set loaded before and mounted its page, with one fetch per URL
C11_Witness ==
    /\ lastPass.cached
    /\ lastPass.outcome = "loaded"
    /\ lastPass.origin = "user"
    /\ navs >= 2
    /\ \E d \in DocSetIds :
           /\ dom.page.shown /\ dom.page.d = d
           /\ lastCb.d = d /\ lastCb.outcome = "shown"
           /\ DocsComplete(d)
           /\ \A u \in Urls(d) : fetchCount[d][u] = 1

\* C12: an identity with non-empty project, version, type and page and an
\* optional section, written to the fragment with createHash and read back
\* with parseHash, comes back field by field
C12_RoundTrip ==
    (call.fn = "createHash" /\ call.state = "returned") =>
        /\ ~call.created.threw
        /\ ~call.parsed.threw
        /\ call.parsed.project = call.p.project
        /\ call.parsed.version = call.p.version
        /\ call.parsed.type = call.p.type
        /\ call.parsed.page = call.p.page
        /\ call.parsed.section = call.p.section

\* the round trip of C12 wherever createHash returns
RoundTripWhenCreated ==
    (call.fn = "createHash" /\ call.state = "returned" /\ ~call.created.threw) =>
        /\ ~call.parsed.threw
        /\ call.parsed.project = call.p.project
        /\ call.parsed.version = call.p.version
        /\ call.parsed.type = call.p.type
        /\ call.parsed.page = call.p.page
        /\ call.parsed.section = call.p.section

\* C13: parseHash raises no exception, whatever the fragment
C13_ParseHashNeverThrows ==
    (call.fn = "parseHash" /\ call.state = "returned") => ~call.parsed.threw

\* no user input so far: no navigation, no <select> change, no scroll
UserIdle == navs = 0 /\ scrolls = 0

\* the fragment startup leaves when it finds none
DefaultHash == <<"Intern", latest("Intern"), "docs", First(pages(<<"Intern", latest("Intern")>>))>>

\* C14: without user input, a startup on the empty fragment puts the
\* fragment of the default project, its latest version, type docs and the
\* first page in place; processHash runs at most once, whatever the start
\* fragment, and exactly once when everything has settled; started on the
\* empty fragment, that pass loads the doc set and the first page is shown
C14_StartupOnePass ==
    /\ started => hash \in {DefaultHash} \cup (StartHashes \ {<<"">>})
    /\ lastPass.outcome = "none" \/ lastPass.first
    /\ (started /\ hashEvents = <<>>) => lastPass.outcome # "none"
    /\ (Quiescent /\ lastPass.origin = "start" /\ \A d \in DocSetIds : ~FetchFailed(d)) =>
           /\ hash = DefaultHash
           /\ lastPass.outcome = "loaded"
           /\ lastCb.outcome = "shown"
           /\ dom.page = [shown |-> TRUE, d |-> <<hash[1], hash[2]>>, kind |-> "docs",
                          name |-> hash[4]]
           /\ DocsComplete(dom.page.d)

\* C14 witness: started on an empty fragment, the one pass came from the
\* hashchange event of the synthesized fragment and showed the first page
C14_Witness ==
    /\ UserIdle
    /\ Quiescent
    /\ lastPass.first
    /\ lastPass.origin = "start"
    /\ lastPass.outcome = "loaded"
    /\ dom.page.shown /\ dom.page.name = "a.md" /\ dom.page.d = <<"Intern", "4">>

\* C15: without user input processHash issues no fragment rewrite of its
\* own, whatever the start fragment, so no chain of rewrites exists; a pass
\* on a doc set with an empty page list ends with an exception in its
\* callback and leaves the fragment alone
C15_NoRewriteLoop ==
    /\ lastPass.outcome # "rewrote"
    /\ \A i \in 1..Len(hashEvents) : hashEvents[i] # "router"
    /\ (lastCb.outcome # "none" /\ lastCb.d \in DocSetIds /\ pages(lastCb.d) = <<>>) =>
           /\ lastCb.outcome = "threw"
           /\ hash = <<"Intern", "2", "docs">>

\* C15 witness: started on the doc set without pages; the pass and its
\* callback have run, the callback raised, and nothing is pending
C15_Witness ==
    /\ UserIdle
    /\ Quiescent
    /\ hash = <<"Intern", "2", "docs">>
    /\ lastPass.first
    /\ lastCb.d = <<"Intern", "2">>
    /\ lastCb.outcome = "threw"

\* the fragment names a registered doc set, type docs and a configured page
DocPageRequested ==
    /\ Len(hash) = 4
    /\ <<hash[1], hash[2]>> \in DocSetIds
    /\ hash[3] = "docs"
    /\ hash[4] \in Range(pages(<<hash[1], hash[2]>>))

AnyFetchFailed == \E d \in DocSetIds : FetchFailed(d)

\* the requested page and the docs menu of its doc set are mounted, the menu
\* holds the configured pages in configured order, every URL of the doc set
\* was fetched once and nothing else was fetched, and neither the pass nor
\* its callback raised
PageMounted ==
    /\ DocPageRequested
    /\ dom.page = [shown |-> TRUE, d |-> <<hash[1], hash[2]>>, kind |-> "docs",
                   name |-> hash[4]]
    /\ dom.menu = [shown |-> TRUE, d |-> <<hash[1], hash[2]>>, kind |-> "docs"]
    /\ DocsComplete(<<hash[1], hash[2]>>)
    /\ \A d \in DocSetIds : \A u \in Urls(d) :
           fetchCount[d][u] = IF d = <<hash[1], hash[2]>> THEN 1 ELSE 0
    /\ lastPass.outcome = "loaded"
    /\ lastCb.outcome = "shown"

\* C16: with fair delivery of events, a fragment that names a registered doc
\* set, type docs and a configured page leads to that page and the doc set's
\* docs menu (one entry per configured page, in order) being mounted with
\* one fetch per URL and no exception, unless a fetch fails
C16_PageEventuallyMounted == DocPageRequested ~> (AnyFetchFailed \/ PageMounted)

\* C16 witness: '#Intern/4/docs/a.md' ended in two fetches, the two-item
\* menu and a.md on display
C16_Witness ==
    /\ hash = <<"Intern", "4", "docs", "a.md">>
    /\ PageMounted
    /\ Quiescent
    /\ fetchCount[<<"Intern", "4">>] = [u \in {"a.md", "b.md"} |-> 1]
    /\ menu[<<"Intern", "4">>].items = <<"a.md", "b.md">>
    /\ dom.page.name = "a.md"

\* what a run leaves on display: the mounted page, the mounted menu with its
\* entries in order and the project and version its links carry, and the
\* data-doc-* attributes of the container
NoEntries == [defined |-> FALSE, items |-> <<>>, project |-> "", version |-> ""]

FinalView ==
    [page |-> dom.page,
     menu |-> dom.menu,
     entries |-> IF ~dom.menu.shown THEN NoEntries
                 ELSE IF dom.menu.kind = "docs" THEN menu[dom.menu.d]
                 ELSE apiMenu[dom.menu.d],
     attrs |-> <<dom.docType, dom.docProject, dom.docVersion>>]

\* nothing on display
BlankView ==
    [page |-> NoPage, menu |-> NoMenu, entries |-> NoEntries,
     attrs |-> <<"null", UNDEFINED, UNDEFINED>>]

\* the menu of kind `kind` of doc set d is mounted, with page `name` or
\* with no page
MenuView(d, kind, type, name) ==
    [page |-> IF name = UNDEFINED THEN NoPage
              ELSE [shown |-> TRUE, d |-> d, kind |-> kind, name |-> name],
     menu |-> [shown |-> TRUE, d |-> d, kind |-> kind],
     entries |-> [defined |-> TRUE,
                  items |-> IF kind = "docs" THEN pages(d) ELSE ApiModules(d),
                  project |-> d[1], version |-> d[2]],
     attrs |-> <<type, d[1], d[2]>>]

\* the one view each start fragment ends in
ViewOf(h) ==
    CASE Len(h) = 4 /\ <<h[1], h[2]>> \in DocSetIds /\ h[3] = "docs"
             /\ h[4] \in Range(pages(<<h[1], h[2]>>)) ->
                 MenuView(<<h[1], h[2]>>, "docs", "docs", h[4])
      [] Len(h) = 4 /\ <<h[1], h[2]>> \in DocSetIds /\ h[3] = "docs"
             /\ h[4] \notin Range(pages(<<h[1], h[2]>>)) ->
                 MenuView(<<h[1], h[2]>>, "docs", "docs", UNDEFINED)
      [] Len(h) = 4 /\ <<h[1], h[2]>> \in DocSetIds /\ h[3] = "api"
             /\ hasApi(<<h[1], h[2]>>) /\ h[4] \in Range(ApiModules(<<h[1], h[2]>>)) ->
                 MenuView(<<h[1], h[2]>>, "api", "api", h[4])
      [] Len(h) = 1 /\ h[1] \in Projects ->
                 MenuView(<<h[1], latest(h[1])>>, "docs", "undefined", UNDEFINED)
      [] OTHER -> BlankView

\* the run is over: every event was delivered and every fetch delivered its
\* response (`ready` fired, or was never created because startup raised)
RunOver ==
    /\ started
    /\ hashEvents = <<>>
    /\ earlyWaiters = <<>>
    /\ readyState \in {"fired", "unset"}
    /\ \A d \in DocSetIds : \A u \in Urls(d) :
           fetches[d][u] \notin {"pending", "fetched", "failed"}

\* C17: a run without user input and without a failed fetch ends in a view
\* that is a function of the fragment alone, whatever the order in which
\* the fetches complete and the window load event fires
C17_FinalViewDetermined == RunOver => FinalView = ViewOf(hash)

\* C17 witness: a run on a doc set with a page and an API file is over, with
\* the page and both menus in place
C17_Witness ==
    /\ RunOver
    /\ hash = <<"Intern", "3", "docs", "a.md">>
    /\ dom.page.shown
    /\ apiMenu[<<"Intern", "3">>].defined
    /\ lastCb.outcome = "shown"

PendingTimers(kind) == {x \in call.pending : x.kind = kind}

\* C18: at most one scroll timer and at most one search timer is pending;
\* every burst of scroll events that are not ignored has exactly one
\* updateHashFromContent, made or still pending, and each is made
\* menuHighlightDelay after the last event of its burst; every burst of
\* input events has exactly one search, made or still pending, and each is
\* made searchDelay after the last event of its burst with the value of
\* that event
C18_OneTimerOneCall ==
    call.fn = "debounce" =>
        /\ Cardinality(PendingTimers("scroll")) <= 1
        /\ Cardinality(PendingTimers("search")) <= 1
        /\ Len(call.updates) + Cardinality(PendingTimers("scroll")) = call.scrollBursts
        /\ Len(call.searches) + Cardinality(PendingTimers("search")) = call.inputBursts
        /\ \A x \in PendingTimers("scroll") : x.due = call.lastScroll + menuHighlightDelay
        /\ \A x \in PendingTimers("search") : x.due = call.lastInput + searchDelay
        /\ (call.updates # <<>> /\ PendingTimers("scroll") = {}) =>
               call.updates[Len(call.updates)].at = call.lastScroll + menuHighlightDelay
        /\ (call.searches # <<>> /\ PendingTimers("search") = {}) =>
               call.searches[Len(call.searches)] =
                   [at |-> call.lastInput + searchDelay, value |-> call.value]

\* C18 witness: a burst of three input events with different values ended
\* in one search, and no timer is pending
C18_Witness ==
    /\ call.fn = "debounce"
    /\ call.events = 3
    /\ call.inputBursts = 1
    /\ call.lastInput > 0
    /\ call.value = "b"
    /\ call.searches = <<[at |-> call.lastInput + searchDelay, value |-> "b"]>>
    /\ call.pending = {}

TreeBuilt(levels) ==
    call.fn = "createMenu" /\ call.state = "returned" /\ call.levels = levels

\* the positions of the headings of level l from position i on, up to the
\* next heading of a level above l (a smaller number)
RECURSIVE Section(_, _, _)
Section(levels, l, i) ==
    IF i > Len(levels) \/ levels[i] < l THEN <<>>
    ELSE (IF levels[i] = l THEN <<i>> ELSE <<>>) \o Section(levels, l, i + 1)

\* the page starts with its <h1> and holds only h2 and h3 below it, every
\* h3 below some h2
Outlined(levels) ==
    /\ Len(levels) >= 2
    /\ levels[1] = 1
    /\ levels[2] = 2
    /\ \A i \in 2..Len(levels) : levels[i] \in 2..maxDepth

\* C19 as stated: for the levels [1,2,2,3,2] the first level-2 node has
\* exactly one level-3 child and the second level-2 node has none
C19_FirstLevel2HasChild ==
    TreeBuilt(<<1, 2, 2, 3, 2>>) =>
        /\ call.tree.children[2] = <<4>>
        /\ call.tree.children[3] = <<>>

\* C19 amended: every heading is a child of the nearest heading of the level
\* above that precedes it, in document order: the level-2 nodes are the
\* children of the level-1 root and each level-3 node is a child of the
\* level-2 node before it.  For [1,2,2,3,2] the second level-2 node has the
\* one level-3 child, the first and the third have none, and the three are
\* siblings under the root in document order; for [1,2,3,2] the first
\* level-2 node has the level-3 child and the second has none
C19_HeadingTree ==
    /\ TreeBuilt(<<1, 2, 2, 3, 2>>) =>
           call.tree = [root |-> 1,
                        children |-> [n \in 0..5 |->
                                         CASE n = 1 -> <<2, 3, 5>>
                                           [] n = 3 -> <<4>>
                                           [] OTHER -> <<>>]]
    /\ TreeBuilt(<<1, 2, 3, 2>>) =>
           /\ call.tree.children[1] = <<2, 4>>
           /\ call.tree.children[2] = <<3>>
           /\ call.tree.children[4] = <<>>
    /\ (call.fn = "createMenu" /\ call.state = "returned" /\ Outlined(call.levels)) =>
           /\ call.tree.root = 1
           /\ call.tree.children[1] = Section(call.levels, 2, 2)
           /\ \A n \in 2..Len(call.levels) :
                  call.tree.children[n] =
                      IF call.levels[n] = 2 THEN Section(call.levels, 3, n + 1)
                      ELSE <<>>

\* C19 witness: the tree of the levels [1,2,2,3,2] has been built
C19_Witness ==
    /\ TreeBuilt(<<1, 2, 2, 3, 2>>)
    /\ call.tree.children[3] = <<4>>
    /\ call.tree.children[1] = <<2, 3, 5>>

\* C20: the slugs one slugifier has returned are pairwise distinct, also for
\* texts without any slug character and for a text whose slug is a suffixed
\* slug returned before; 'Setup', 'Setup' gives 'setup', 'setup-1' and
\* 'a', 'a', 'a 1' gives 'a', 'a-1', 'a-1-1'
C20_SlugsDistinct ==
    call.fn = "slugify" =>
        /\ \A i, j \in 1..Len(call.slugs) : i # j => call.slugs[i] # call.slugs[j]
        /\ call.texts = <<(<<"S", "e", "t", "u", "p">>), <<"S", "e", "t", "u", "p">>>> =>
               call.slugs = <<(<<"s", "e", "t", "u", "p">>),
                              <<"s", "e", "t", "u", "p", "-", "1">>>>
        /\ call.texts = <<(<<"a">>), <<"a">>, <<"a", " ", "1">>>> =>
               call.slugs = <<(<<"a">>), <<"a", "-", "1">>, <<"a", "-", "1", "-", "1">>>>
        /\ call.texts = <<(<<"\\u00e9">>), <<"\\u00e9">>>> =>
               call.slugs = <<(<<>>), <<"-", "1">>>>

\* C20 witness: 'a', 'a', 'a 1' have been slugified
C20_Witness ==
    /\ call.fn = "slugify"
    /\ call.texts = <<(<<"a">>), <<"a">>, <<"a", " ", "1">>>>
    /\ call.slugs[3] = <<"a", "-", "1", "-", "1">>

ApiCall == call.fn = "renderApiPages"

\* the sources of module A whose target is the class K of module B
TargetsK(src) ==
    \/ src.kind = "type" /\ src.id = 4
    \/ src.kind = "name" /\ src.name \in {<<"lib/B", ".", "K">>, <<"K">>}

\* C21: no href of a pending link is assigned before every module has been
\* rendered, and when renderApiPages has returned, every type reference and
\* every [[...]] link of module A whose target is declared in module B has
\* the fragment of B's page with the slug of the target as section
C21_CrossModuleLinksResolved ==
    ApiCall =>
        /\ (\E i \in PendingLinks : call.links[i].href.form = "fragment") =>
               call.walked = Len(ApiModuleIds)
        /\ call.phase = "returned" =>
               \A i \in 1..Len(call.links) :
                   TargetsK(call.links[i].src) =>
                       call.links[i].href = ApiFragment(<<"lib/B">>, "k")

\* the part of C21 that holds: the type references
TypeLinksResolved ==
    (ApiCall /\ call.phase = "returned") =>
        \A i \in 1..Len(call.links) :
            (call.links[i].src.kind = "type" /\ call.links[i].src.id = 4) =>
                call.links[i].href = ApiFragment(<<"lib/B">>, "k")

\* a link is inert: no href, and not the api: pseudo-scheme
Inert(link) == link.href.form = "none"

\* C22: the resolution pass never throws; a link without a target ends
\* inert and every other pending link is resolved
C22_ResolutionNeverThrows ==
    (ApiCall /\ call.bare = 0) =>
        /\ call.phase # "threw"
        /\ call.phase = "returned" =>
               \A i \in PendingLinks :
                   IF findModule(call.links[i].id) = 0 THEN Inert(call.links[i])
                   ELSE call.links[i].href.form = "fragment"

\* C23: with a function without `signatures` renderApiPages raises nothing,
\* and both module pages are produced with the headings of all the other
\* declarations
C23_MissingSignaturesSkipped ==
    (ApiCall /\ call.bare # 0 /\ call.sources = <<>>) =>
        /\ call.phase # "threw"
        /\ call.phase = "returned" =>
               /\ call.pages = ApiModuleIds
               /\ call.headings = (1..5) \ {call.bare}

\* the markers of a text, in order
RECURSIVE markersOf(_)
markersOf(text) ==
    IF text = <<>> THEN <<>>
    ELSE (IF Head(text) \in MarkerPieces THEN <<Head(text)>> ELSE <<>>)
         \o markersOf(Tail(text))

\* zero, one or two start-marker/end-marker pairs that do not overlap
WellMarked(text) ==
    LET pair == {<<"S1", "E1">>, <<"S2", "E2">>}
    IN  markersOf(text) \in {<<>>} \cup pair \cup {p \o q : p \in pair, q \in pair}

\* the text without its regions from a start marker through its end marker
RECURSIVE outside(_, _)
outside(text, inRegion) ==
    IF text = <<>> THEN <<>>
    ELSE IF Head(text) \in {"S1", "S2"} THEN outside(Tail(text), TRUE)
    ELSE IF Head(text) \in {"E1", "E2"} THEN outside(Tail(text), FALSE)
    ELSE (IF inRegion THEN <<>> ELSE <<Head(text)>>) \o outside(Tail(text), inRegion)

Filtered == call.fn = "filterGhContent" /\ call.state = "returned"

\* C24: for a text with zero, one or two marker pairs filterGhContent
\* returns the text without the marked regions, every character outside
\* the regions kept, the one that follows an end marker included
C24_FilterKeepsOutside ==
    (Filtered /\ WellMarked(call.text)) => call.result = outside(call.text, FALSE)

\* what holds instead: the result is the text without the marked regions
\* and without the character that follows each end marker
RECURSIVE outsideSkipping(_, _, _)
outsideSkipping(text, inRegion, skip) ==
    IF text = <<>> THEN <<>>
    ELSE IF Head(text) \in {"S1", "S2"} /\ ~skip THEN outsideSkipping(Tail(text), TRUE, FALSE)
    ELSE IF Head(text) \in {"E1", "E2"} THEN outsideSkipping(Tail(text), FALSE, TRUE)
    ELSE (IF inRegion \/ skip THEN <<>> ELSE <<Head(text)>>)
         \o outsideSkipping(Tail(text), inRegion, FALSE)

FilterDropsFollower ==
    (Filtered /\ WellMarked(call.text)
        /\ \A i \in 1..(Len(call.text) - 1) :
               call.text[i] \in {"E1", "E2"} => call.text[i + 1] \notin MarkerPieces) =>
        call.result = outsideSkipping(call.text, FALSE, FALSE)


----------------------------------------------------------------------------
(* The link_open rule *)

LinkDone == call.fn = "link_open" /\ call.state = "returned"

\* the target './file.md#fragment'
siblingTarget(href) ==
    /\ Len(href) = 5
    /\ href[1] = "." /\ href[2] = "/" /\ href[3] \in MdFiles /\ href[4] = "#"

\* the target '#fragment'
bareTarget(href) == Len(href) = 2 /\ href[1] = "#"

\* the doc set of the fragment in place, as getDocInfo reads it
currentOf(h) == getDocInfo(h, apiPages)

\* the content type of the page being rendered
typeOfEnv(env) == IF env.type = Absent THEN Str(<<"docs">>) ELSE env.type

\* what parseHash reads from the rewritten target, all fields but the type
decodedAs(parsed, h, page, section) ==
    /\ ~parsed.threw
    /\ parsed.project = Str(<<currentOf(h).project>>)
    /\ parsed.version = Str(<<currentOf(h).version>>)
    /\ parsed.page = Str(page)
    /\ parsed.section = Str(section)

\* C25: in doc_viewer.ts the target './sibling.md#frag' found on a docs page
\* is rewritten to the fragment that parseHash decodes as the current
\* project and version, type docs, the sibling in the directory of the page
\* (no directory for a page without '/'), and the section 'frag'
C25_SiblingLinkRewritten ==
    (/\ LinkDone
     /\ call.rule = "doc_viewer"
     /\ call.env.type = Absent
     /\ siblingTarget(call.href))
    => /\ decodedAs(call.parsed, call.current,
                    pageBase(call.env.page) \o <<call.href[3]>>, <<call.href[5]>>)
       /\ call.parsed.type = Str(<<"docs">>)

\* what the code does with that target: all fields are as stated but the
\* type, which is the text 'undefined'
SiblingLinkTypeUndefined ==
    (/\ LinkDone
     /\ call.rule = "doc_viewer"
     /\ call.env.type = Absent
     /\ siblingTarget(call.href))
    => /\ decodedAs(call.parsed, call.current,
                    pageBase(call.env.page) \o <<call.href[3]>>, <<call.href[5]>>)
       /\ call.parsed.type = Str(CharsOf(Absent))

\* C26: a bare '#fragment' found while page P is rendered is rewritten to
\* the fragment that parseHash decodes as the current project and version,
\* the content type of P, the page P and the section 'fragment'
C26_BareFragmentRewritten ==
    (LinkDone /\ bareTarget(call.href))
    => /\ decodedAs(call.parsed, call.current, call.env.page, <<call.href[2]>>)
       /\ call.parsed.type = typeOfEnv(call.env)

\* what the code does with a bare '#fragment': doc_viewer.ts names the page
\* '[object Object]', render.ts names no page and no section, and both give
\* the type docs
BareFragmentLosesPage ==
    (LinkDone /\ bareTarget(call.href))
    => /\ ~call.parsed.threw
       /\ call.parsed.type = Str(<<"docs">>)
       /\ IF call.rule = "doc_viewer"
          THEN /\ call.parsed.page = Str(ObjectChars)
               /\ call.parsed.section = Str(<<call.href[2]>>)
          ELSE call.parsed.page = Absent /\ call.parsed.section = Absent


----------------------------------------------------------------------------
(* The registry lookups *)

\* the lookup `fn` has returned or raised
lookupDone(fn) == call.fn = fn /\ call.state = "returned"

\* the keys of the project's versions, in key order
keyOrder(docsets) == ObjectKeys(docsets.Intern.versions)

\* the latest version: the tagged one, else the last key
latestOf(docsets) ==
    IF docsets.Intern.latest # UNDEFINED THEN docsets.Intern.latest
    ELSE keyOrder(docsets)[Len(keyOrder(docsets))]

\* the key that follows v in key order, UNDEFINED after the last key
keyAfter(docsets, v) ==
    IF \E i \in 1..(Len(keyOrder(docsets)) - 1) : keyOrder(docsets)[i] = v
    THEN keyOrder(docsets)[1 + CHOOSE i \in 1..(Len(keyOrder(docsets)) - 1) :
                                   keyOrder(docsets)[i] = v]
    ELSE UNDEFINED

\* C27: for a registered project getLatestVersion returns the version
\* tagged latest, else the last version key; getNextVersion returns the
\* version tagged next, else the key that follows the latest version in key
\* order, and no version when the latest version is the last key
C27_LatestAndNext ==
    /\ (lookupDone("getLatestVersion") /\ call.project = "Intern")
       => /\ ~call.result.threw
          /\ call.result.value.version = latestOf(call.docsets)
    /\ (lookupDone("getNextVersion") /\ call.project = "Intern")
       => /\ ~call.result.threw
          /\ call.result.value.version =
                 IF call.docsets.Intern.next # UNDEFINED THEN call.docsets.Intern.next
                 ELSE keyAfter(call.docsets, latestOf(call.docsets))

\* no next tag, the keys written as 10, 3 and the latest tag on 3:
\* getNextVersion returned 10, the key after 3 in key order
C27_Witness ==
    /\ lookupDone("getNextVersion")
    /\ call.project = "Intern"
    /\ call.docsets.Intern = [defined |-> TRUE, versions |-> <<"10", "3">>,
                              latest |-> "3", next |-> UNDEFINED]
    /\ call.result = Returned([version |-> "10",
                               docs |-> versionDocs(call.docsets.Intern, "10")])

\* a registered doc set whose page list is empty, as a lookup returns it
emptySet(result) ==
    /\ ~result.threw
    /\ result.value.docs.defined
    /\ result.value.docs.pages = <<>>

\* the project or the version of the call is not in the registry (getDocSet
\* called without a version asks for the latest one)
notRegistered ==
    \/ call.project # "Intern"
    \/ /\ call.fn \in SetLookupFns
       /\ call.version \notin keysOf(call.docsets.Intern.versions)
       /\ ~(call.fn = "getDocSet" /\ call.version = UNDEFINED)

\* C28: a lookup of a project or a version that is not in the registry
\* returns and does not throw
C28_LookupsNeverThrow ==
    (/\ call.fn \in LookupFns \cup SetLookupFns
     /\ call.state = "returned"
     /\ notRegistered)
    => ~call.result.threw

\* what holds of the lookups: only getDocSet of docs.ts returns for what is
\* not registered, and what it returns has no page list
OnlyGetDocSetReturns ==
    (/\ call.fn \in LookupFns \cup SetLookupFns
     /\ call.state = "returned"
     /\ notRegistered)
    => IF call.fn = "getDocSet"
       THEN /\ ~call.result.threw
            /\ \/ ~call.result.value.defined
               \/ ~call.result.value.docs.defined
       ELSE call.result.threw


----------------------------------------------------------------------------
(* formatSignature *)

\* the text without its blank characters
withoutWhitespace(text) == SelectSeq(text, LAMBDA c : c \notin {" ", "\n"})

FormatDone == call.fn = "formatSignature" /\ call.state = "returned"

\* C29: formatSignature terminates, and its result without whitespace is
\* the text without whitespace
C29_OnlyWhitespaceInserted ==
    FormatDone
    => /\ call.result.finished
       /\ withoutWhitespace(call.result.text) = withoutWhitespace(call.text)

\* what holds: formatSignature terminates, and its result without
\* whitespace is a subsequence of the text of the same or a smaller length
FormatTerminates ==
    FormatDone
    => /\ call.result.finished
       /\ Len(withoutWhitespace(call.result.text)) <= Len(withoutWhitespace(call.text))


----------------------------------------------------------------------------
(* loadDocset and a page without <h1> *)

\* every response of the doc set has arrived, and page i has no <h1>
loadedWithout(i) ==
    /\ call.fn = "loadDocset"
    /\ i \in 1..Len(call.h1)
    /\ call.h1[i] = "none"
    /\ \A k \in 1..Len(call.h1) : call.fetches[k] # "pending"

\* C30: when a page of the doc set has no <h1> the load still completes
\* without an exception: the page is cached under the project name, the
\* menu has an entry for it with the synthetic root, and every other page
\* is cached and the requested page is displayed
C30_PageWithoutH1Loads ==
    \A i \in 1..MaxPages :
        loadedWithout(i)
        => /\ call.load = "resolved"
           /\ call.fetches[i] = "done"
           /\ call.cache[i].defined /\ call.cache[i].title = call.project
           /\ call.menu.defined /\ call.menu.items[i].root = "synthetic"
           /\ \A k \in 1..Len(call.h1) : call.cache[k].defined
           /\ call.shown # UNDEFINED

\* what the code does: the reaction on that page raises, the load is
\* rejected, no menu is created and no page is shown; the page is not cached
PageWithoutH1RejectsLoad ==
    \A i \in 1..MaxPages :
        loadedWithout(i)
        => /\ call.load = "rejected"
           /\ call.fetches[i] = "threw"
           /\ ~call.cache[i].defined
           /\ ~call.menu.defined
           /\ call.shown = UNDEFINED

\* with an <h1> on every page the load resolves, and a page whose <h1> has
\* no text is cached under the project name
EmptyH1TitledByProject ==
    (/\ call.fn = "loadDocset"
     /\ \A k \in 1..Len(call.h1) : call.h1[k] # "none" /\ call.fetches[k] = "done")
    => /\ call.load = "resolved"
       /\ \A k \in 1..Len(call.h1) :
              call.h1[k] = "empty" => call.cache[k].title = call.project


----------------------------------------------------------------------------
(* The window 'load' event and the display *)

\* C31: whenever processHash's completion callback ran showMenu or showPage,
\* the window 'load' event had fired before that run
C31_ShowOnlyAfterLoad ==
    (lastCb.menuRan \/ lastCb.pageRan) => lastCb.ready = "fired"

\* the completion callback ran before the 'load' event (the script started
\* on a fragment, and the doc set was loaded at once) and raised before it
\* reached showMenu
C31_Witness ==
    /\ lastCb.outcome = "threw"
    /\ lastCb.ready # "fired"
    /\ lastPass.origin = "direct"
    /\ ~lastCb.menuRan /\ ~lastCb.pageRan


----------------------------------------------------------------------------
(* The order of rendering and menu building *)

\* C32: the docs menu of a doc set exists only when every configured page
\* is in pageCache, the API menu only when renderApiPages has filled
\* apiPages, and a menu that exists is never assigned again
C32_MenusAfterPagesOnce ==
    /\ [](\A d \in DocSetIds :
              /\ menu[d].defined =>
                     /\ pageCache[d].defined
                     /\ Range(pages(d)) \subseteq pageCache[d].names
              /\ apiMenu[d].defined =>
                     /\ apiPages[d].defined
                     /\ apiPages[d].names = ApiModules(d))
    /\ [][\A d \in DocSetIds :
              /\ menu[d].defined => menu'[d] = menu[d]
              /\ apiMenu[d].defined => apiMenu'[d] = apiMenu[d]]_vars

\* the doc set with API data has both menus, and a later pass asked for it
\* again
C32_Witness ==
    /\ menu[<<"Intern", "3">>].defined
    /\ menu[<<"Intern", "3">>].items = pages(<<"Intern", "3">>)
    /\ apiMenu[<<"Intern", "3">>].defined
    /\ apiMenu[<<"Intern", "3">>].items = ApiModules(<<"Intern", "3">>)
    /\ lastPass.cached
    /\ lastPass.version = "3"


----------------------------------------------------------------------------
(* A fragment without a version *)

\* the last pass went past `if (ignoring) return` on a fragment that names
\* a registered project and no version
versionlessPass ==
    /\ lastPass.full
    /\ lastPass.project \in Projects
    /\ Falsy(lastPass.version)

\* C33: a pass on a fragment with a registered project and no version
\* rewrites the fragment to the latest version of the project and calls
\* loadDocset only in the pass of the rewritten fragment
C33_VersionlessRewritten ==
    versionlessPass
    => /\ lastPass.outcome = "rewrote"
       /\ Len(hash) >= 2 /\ hash[2] = latest(lastPass.project)

\* what the code does: getDocset has written the latest version into the
\* parsed fragment before `if (!hash.version)` reads it, so the pass calls
\* loadDocset at once and the fragment stays without a version
VersionlessLoadsAtOnce ==
    versionlessPass
    => /\ lastPass.outcome \in {"loaded", "threw"}
       /\ hash = <<lastPass.project>>


\* the callback of a pass whose fragment has no content type has run after
\* the window 'load' event
typelessShown ==
    /\ lastCb.outcome # "none"
    /\ Falsy(lastCb.hash.type)
    /\ lastCb.ready = "fired"

\* C34: the callback of a fragment without a content type mounts the docs
\* menu and the first docs page of the doc set, and in every state the
\* mounted menu and the mounted page are of the same content type
C34_TypelessShowsDocs ==
    /\ typelessShown =>
           /\ lastCb.outcome = "shown"
           /\ dom.menu.shown /\ dom.menu.kind = "docs"
           /\ dom.page.shown /\ dom.page.kind = "docs"
           /\ dom.page.name = pages(lastCb.d)[1]
    /\ dom.menu.shown /\ dom.page.shown => dom.menu.kind = dom.page.kind

\* what the code does for such a fragment: showMenu mounts the docs menu,
\* and showPage either throws in getPage (the doc set has no API pages) or
\* mounts the first API page under the docs menu
TypelessShowsApiPage ==
    typelessShown /\ menu[lastCb.d].defined /\ lastCb.current = lastCb.d =>
        /\ dom.menu.shown /\ dom.menu.kind = "docs"
        /\ IF apiPages[lastCb.d].defined
           THEN /\ lastCb.outcome = "shown"
                /\ dom.page.shown /\ dom.page.kind = "api"
                /\ dom.page.name = apiPages[lastCb.d].names[1]
           ELSE lastCb.outcome = "threw" /\ ~dom.page.shown


\* a fragment without a content type has the docs menu over an API page
TypelessMismatchReached ==
    /\ typelessShown
    /\ dom.menu.shown /\ dom.menu.kind = "docs"
    /\ dom.page.shown /\ dom.page.kind = "api"


\* the project, version, content type and page that getDocInfo decodes
\* from a fragment
decodedDoc(h, ap) ==
    IF getDocInfoThrows(h) THEN [threw |-> TRUE]
    ELSE LET docs == getDocInfo(h, ap)
         IN  [threw |-> FALSE, project |-> docs.project, version |-> docs.version,
              type |-> docs.type, page |-> docs.page]

\* the scroll timer fires and updateHashFromContent rewrites the fragment
scrollRewrite == menuTimer /\ ~menuTimer' /\ hash' # hash

\* C35: a rewrite by updateHashFromContent leaves the project, version,
\* content type and page decoded from the fragment as they were
C35_RewriteKeepsDocument ==
    [][scrollRewrite => decodedDoc(hash', apiPages') = decodedDoc(hash, apiPages)]_vars

\* what the code does: the rewrite keeps the project, the version and the
\* page of the fragment, and takes the content type from the data-doc-type
\* attribute written by the last callback
RewriteTakesTypeFromViewer ==
    [][scrollRewrite =>
          LET before == decodedDoc(hash, apiPages)
              after == decodedDoc(hash', apiPages')
          IN  /\ ~before.threw /\ ~after.threw
              /\ after.project = before.project
              /\ after.version = before.version
              /\ after.type = dom.docType
              /\ Falsy(before.page) \/ after.page = before.page]_vars

\* C35 state: a rewrite has put the type of the mounted page into a
\* fragment whose page is that of a navigation still being loaded
RewriteChangedType ==
    /\ hashEvents # <<>> /\ hashEvents[Len(hashEvents)] = "scroll"
    /\ ~getDocInfoThrows(hash)
    /\ getDocInfo(hash, apiPages).type = "docs"
    /\ getDocInfo(hash, apiPages).page = "m1"


\* C36: the flag makes the listener drop the scroll events of showPage's
\* own scrolling and no others: no such event arms the timer of
\* updateHashFromContent, and no scroll of the user is dropped
C36_FlagDropsOwnScrollsOnly ==
    call.fn = "ignoreScroll" =>
        /\ "showPage" \notin call.armed
        /\ "user" \notin call.dropped

\* what the code does: the flag is set from showPage until the listener
\* next runs, so it drops the first scroll event delivered after a
\* showPage, whoever caused it, and no other
FlagDropsNextScroll ==
    call.fn = "ignoreScroll" =>
        call.ignoreScroll = (call.shows > 0 /\ call.sinceShow = 0)

\* C36 states: a scroll of the user was dropped; a scroll caused by
\* showPage armed the timer
UserScrollDropped == call.fn = "ignoreScroll" /\ "user" \in call.dropped

OwnScrollArmedTimer ==
    call.fn = "ignoreScroll" /\ "showPage" \in call.armed /\ call.menuTimer


\* the page starts with its <h1>, the root, and holds only headings of the
\* levels 2..maxDepth below it
BelowRoot(levels) ==
    /\ Len(levels) >= 1
    /\ levels[1] = 1
    /\ \A i \in 2..Len(levels) : levels[i] \in 2..maxDepth

\* the nearest heading before n of a strictly lower level; the root, at
\* position 1, is of level 1
nearestLower(levels, n) ==
    CHOOSE p \in 1..(n - 1) :
        /\ levels[p] < levels[n]
        /\ \A q \in (p + 1)..(n - 1) : levels[q] >= levels[n]

\* the positions of the headings whose nearest lower heading is p, in
\* document order
RECURSIVE nestedUnder(_, _, _)
nestedUnder(levels, p, n) ==
    IF n > Len(levels) THEN <<>>
    ELSE (IF n > p /\ n > 1 /\ nearestLower(levels, n) = p THEN <<n>> ELSE <<>>)
         \o nestedUnder(levels, p, n + 1)

\* C37: for every sequence of levels in 2..maxDepth behind the root, the
\* children of every node are the headings whose nearest preceding heading
\* of a lower level is that node, in document order: every heading is in
\* the tree once, under that heading
C37_EveryHeadingNested ==
    (call.fn = "createMenu" /\ call.state = "returned" /\ BelowRoot(call.levels)) =>
        \A p \in 1..Len(call.levels) :
            call.tree.children[p] = nestedUnder(call.levels, p, 2)

\* what the code does: the tree is that one when no heading skips a level
\* on the way down (every h3 has an h2 before it); the h3 headings that
\* come before the first h2 are in no list of children
NestedUnlessLevelSkipped ==
    (call.fn = "createMenu" /\ call.state = "returned" /\ BelowRoot(call.levels)) =>
        /\ Outlined(call.levels) =>
               \A p \in 1..Len(call.levels) :
                   call.tree.children[p] = nestedUnder(call.levels, p, 2)
        /\ (\E i \in 2..Len(call.levels) : call.levels[i] = 2) /\ maxDepth = 3 =>
               \A n \in 2..Len(call.levels) :
                   (\A i \in 2..n : call.levels[i] = 3) =>
                       \A p \in 0..Len(call.levels) :
                           \A k \in 1..Len(call.tree.children[p]) :
                               call.tree.children[p][k] # n

\* C37 state: the tree of the levels [1,3,2] holds the h2 and not the h3
SkippedHeadingLost ==
    /\ TreeBuilt(<<1, 3, 2>>)
    /\ call.tree.children[1] = <<3>>
    /\ call.tree.children[3] = <<>>
    /\ call.tree.children[2] = <<>>


\* the doc set that the links of a built menu name
linkedDocset(m) == <<m.project, m.version>>

\* C38: the links of a doc set's cached menus name that doc set's own
\* project and version, also when the fragment has moved to another doc set
\* while the pages were being fetched
C38_MenuLinksOwnDocset ==
    \A d \in DocSetIds :
        /\ menu[d].defined /\ menu[d].items # <<>> => linkedDocset(menu[d]) = d
        /\ apiMenu[d].defined /\ apiMenu[d].items # <<>> =>
               linkedDocset(apiMenu[d]) = d

\* what the code does: the links of a menu name the doc set of the fragment
\* that is current when the menu is built
MenuLinksCurrentFragment ==
    [][\A d \in DocSetIds :
           /\ ~menu[d].defined /\ menu'[d].defined /\ menu'[d].items # <<>> =>
                  linkedDocset(menu'[d]) = CurDocset(hash)
           /\ ~apiMenu[d].defined /\ apiMenu'[d].defined /\ apiMenu'[d].items # <<>> =>
                  linkedDocset(apiMenu'[d]) = CurDocset(hash)]_vars

\* C38 state: the cached menu of Intern 4 links to Intern 3
MenuLinksOtherDocset ==
    /\ menu[<<"Intern", "4">>].defined
    /\ menu[<<"Intern", "4">>].items = pages(<<"Intern", "4">>)
    /\ linkedDocset(menu[<<"Intern", "4">>]) = <<"Intern", "3">>


\* a hashchange event caused by a setHash with ignoreUpdate is waiting
scrollEventPending == \E i \in 1..Len(hashEvents) : hashEvents[i] = "scroll"

\* C39: skipPageLoad is set only while the hashchange event of a setHash
\* with ignoreUpdate is waiting, and the pass of an event of any other
\* cause never returns on the flag
C39_FlagConsumedByItsEvent ==
    /\ skipPageLoad => scrollEventPending
    /\ lastPass.origin # "scroll" => lastPass.outcome # "skipped"

\* what the code does: the flag is set only while such an event is waiting,
\* and it is consumed by the first hashchange event delivered after it was
\* set, whatever caused that event
FlagConsumedByNextEvent ==
    /\ [](skipPageLoad => scrollEventPending)
    /\ [][(hashEvents # <<>> /\ hashEvents' = Tail(hashEvents)
           /\ lastPass'.outcome # "threw") =>
              /\ lastPass'.origin = Head(hashEvents)
              /\ (lastPass'.outcome = "skipped") = skipPageLoad
              /\ ~skipPageLoad']_vars

\* C39 state: the pass of a user navigation returned on the flag, and the
\* event of the scroll-driven rewrite is still waiting
NavigationConsumedFlag ==
    /\ lastPass.origin = "user"
    /\ lastPass.outcome = "skipped"
    /\ hashEvents = <<"scroll">>
    /\ ~skipPageLoad


\* the doc set named by the data-doc-project and data-doc-version
\* attributes of the content container
attributeDocset == <<dom.docProject, dom.docVersion>>

\* C40: when the container's attributes name a doc set, the mounted menu
\* is a cached menu of that doc set and the mounted page is one of its
\* cached pages
C40_AttributesMatchContent ==
    attributeDocset \in DocSetIds =>
        /\ dom.menu.shown /\ dom.menu.d = attributeDocset
        /\ (IF dom.menu.kind = "docs" THEN menu ELSE apiMenu)[attributeDocset].defined
        /\ dom.page.shown /\ dom.page.d = attributeDocset
        /\ IF dom.page.kind = "docs"
           THEN dom.page.name \in pageCache[attributeDocset].names
           ELSE dom.page.name \in Range(apiPages[attributeDocset].names)

\* what the code does keep: the mounted menu and the mounted page are
\* cached content of the doc set whose docs object they were read from,
\* which is the doc set of the fragment current when the callback runs and
\* not the one the callback writes into the attributes
MountedContentIsCached ==
    /\ dom.menu.shown =>
           (IF dom.menu.kind = "docs" THEN menu ELSE apiMenu)[dom.menu.d].defined
    /\ dom.page.shown =>
           IF dom.page.kind = "docs"
           THEN dom.page.name \in pageCache[dom.page.d].names
           ELSE dom.page.name \in Range(apiPages[dom.page.d].names)

\* C40 state: the attributes name one doc set while the page of another
\* is mounted
AttributesNameOtherDocset ==
    /\ attributeDocset \in DocSetIds
    /\ dom.page.shown /\ dom.menu.shown
    /\ dom.page.d # attributeDocset
    /\ dom.menu.d # attributeDocset

====
